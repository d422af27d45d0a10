--------------------------- MODULE Evidence_proofs ---------------------------
(***************************************************************************)
(* More theorems about Orders: what the audit trail and the rows say of    *)
(* what happened, whichever entities are stale when they are saved.        *)
(***************************************************************************)
EXTENDS Orders_proofs

USE ShippedSame DEF db, courier, local

-----------------------------------------------------------------------------
(* Evidence.  A status that needs a tracking event has one.                *)
Backed(o, s) == s \in {"PICKED_UP", "DELIVERED", "FAILED"} => HasEvent(o, s)

RowBacked(o) == Backed(o, orders[o].status)

\* awaits at which the create of an order is not over
Opening == CreatePc \cup {"idle"}

(* A row is backed, or FAILED with a reason, which it gets only with the   *)
(* last save of its create.                                                *)
RowOK(o) ==
  /\ RowBacked(o) \/ (orders[o].status = "FAILED" /\ orders[o].failureReason)
  /\ pc[o] \in Opening => ~orders[o].failureReason /\ RowBacked(o)

(* What a create is about to save: only its catch block says FAILED, and   *)
(* its UPDATE then writes the reason too.                                  *)
CreateHeld(r) ==
  /\ pc[r] \in {"manifest", "createSelect", "createUpdate"} => ~mem[r].failureReason
  /\ pc[r] \in {"createSelect", "createUpdate"} => mem[r].status = "CREATED"
  /\ pc[r] = "createUpdate" => "failureReason" \notin dirty[r]
  /\ pc[r] \in {"failSelect", "failUpdate"} => mem[r].status = "FAILED" /\ mem[r].failureReason
  /\ pc[r] = "failUpdate" => "failureReason" \in dirty[r]

(* What another request is about to save to order o is backed.  A save     *)
(* that takes the reason away has seen it, so the create is over: it also  *)
(* takes the status away, or that is backed by now.                        *)
OtherHeld(r, o) ==
  /\ pc[r] \in {"trackSelect", "trackUpdate", "cancelUpdate"} => Backed(o, mem[r].status)
  /\ mem[r].failureReason => pc[o] \notin Opening
  /\ pc[r] \in {"trackUpdate", "cancelUpdate"} /\ "failureReason" \in dirty[r] /\ ~mem[r].failureReason =>
       /\ pc[o] \notin Opening
       /\ "status" \notin dirty[r] => RowBacked(o)

HeldOK(r) ==
  /\ CreateHeld(r)
  /\ \A o \in Req : pc[r] \in TrackPc \cup CancelPc /\ target[r] = o => OtherHeld(r, o)

EvidenceInv == \A r \in Req : RowOK(r) /\ HeldOK(r)

(* Nothing has a reason or a status but CREATED in the beginning.          *)
LEMMA EvidenceInit == Init => EvidenceInv
  <1> SUFFICES ASSUME Init, NEW r \in Req PROVE RowOK(r) /\ HeldOK(r)
    BY DEF EvidenceInv
  <1>1. pc[r] = "idle" /\ orders[r] = NewOrder
    BY DEF Init
  <1>2. orders[r].status = "CREATED" /\ orders[r].failureReason = FALSE
    BY <1>1 DEF NewOrder
  <1>3. RowOK(r)
    BY <1>2 DEF RowOK, RowBacked, Backed
  <1>4. HeldOK(r)
    BY <1>1 DEF HeldOK, CreateHeld, TrackPc, CancelPc
  <1> QED BY <1>3, <1>4

(* Tracking events are only added.                                         *)
EventsGrow == \A o \in Req, s \in OrderStatus : HasEvent(o, s) => HasEvent(o, s)'

(* An append adds an event, and is the evidence of its status.             *)
LEMMA AppendEvidence ==
  ASSUME TypeOK, NEW o \in Req, NEW ev \in Event, appendTrackingEvent(o, ev)
  PROVE  EventsGrow /\ \A s : ev.normalizedStatus = s => HasEvent(o, s)'
  <1>1. /\ events[o] \in Seq(Event) /\ events' = [events EXCEPT ![o] = Append(events[o], ev)]
        /\ events \in [Req -> Seq(Event)]
    BY DEF TypeOK, appendTrackingEvent
  <1>2. /\ Len(events'[o]) = Len(events[o]) + 1 /\ events'[o][Len(events[o]) + 1] = ev
        /\ Len(events[o]) \in Nat /\ \A i \in 1..Len(events[o]) : events'[o][i] = events[o][i]
    BY <1>1
  <1>3. ASSUME NEW q \in Req, NEW s \in OrderStatus, HasEvent(q, s) PROVE HasEvent(q, s)'
    <2>1. CASE q = o
      BY <1>2, <1>3, <2>1 DEF HasEvent
    <2>2. CASE q # o
      <3>1. events'[q] = events[q]
        BY <1>1, <2>2
      <3> QED BY <1>3, <3>1 DEF HasEvent
    <2> QED BY <2>1, <2>2
  <1>4. ASSUME NEW s, ev.normalizedStatus = s PROVE HasEvent(o, s)'
    BY <1>2, <1>4 DEF HasEvent
  <1> QED BY <1>3, <1>4 DEF EventsGrow

(* Events that stay are evidence still.                                    *)
LEMMA SameEvidence == UNCHANGED events => EventsGrow
  BY DEF EventsGrow, HasEvent

(* What a step of request r leaves alone of the others.                    *)
OthersStay(r) ==
  /\ \A q \in Req \ {r} : /\ pc'[q] = pc[q] /\ mem'[q] = mem[q]
                          /\ target'[q] = target[q] /\ dirty'[q] = dirty[q]
  /\ pc'[r] \in Opening => pc[r] \in Opening

(* No create that is over is opened again.                                 *)
LEMMA OpeningShrinks ==
  ASSUME NEW r \in Req, OthersStay(r), NEW o \in Req, pc'[o] \in Opening
  PROVE  pc[o] \in Opening
  BY DEF OthersStay

(* Evidence is never lost.                                                 *)
LEMMA StaysBacked ==
  ASSUME EventsGrow, NEW o \in Req, NEW s \in OrderStatus, Backed(o, s)
  PROVE  Backed(o, s)'
  BY DEF EventsGrow, Backed

(* A row that is left alone stays as good as it was.                       *)
LEMMA RowStays ==
  ASSUME TypeOK, NEW r \in Req, OthersStay(r), EventsGrow,
         NEW o \in Req, RowOK(o), orders'[o] = orders[o]
  PROVE  RowOK(o)' /\ (RowBacked(o) => RowBacked(o)')
  <1>1. orders[o].status \in OrderStatus
    BY DEF TypeOK, Row
  <1>2. RowBacked(o) => RowBacked(o)'
    BY <1>1 DEF EventsGrow, Backed, RowBacked
  <1>3. pc'[o] \in Opening => pc[o] \in Opening
    BY OpeningShrinks
  <1> QED BY <1>2, <1>3 DEF RowOK

(* What the others hold stays good when the row they work on stays backed, *)
(* should its create be over.                                              *)
LEMMA OthersHold ==
  ASSUME TypeOK, EvidenceInv, NEW r \in Req, OthersStay(r), EventsGrow, NEW q \in Req, q # r,
         \A o \in Req : target[q] = o /\ pc[o] \notin Opening /\ RowBacked(o) => RowBacked(o)'
  PROVE  HeldOK(q)'
  <1>0. HeldOK(q) /\ pc'[q] = pc[q] /\ mem'[q] = mem[q] /\ target'[q] = target[q] /\ dirty'[q] = dirty[q]
    BY DEF EvidenceInv, OthersStay
  <1>1. CreateHeld(q)'
    BY <1>0 DEF HeldOK, CreateHeld
  <1>2. ASSUME NEW o \in Req, pc[q] \in TrackPc \cup CancelPc, target[q] = o PROVE OtherHeld(q, o)'
    <2>1. OtherHeld(q, o)
      BY <1>0, <1>2 DEF HeldOK
    <2>2. Backed(o, mem[q].status) => Backed(o, mem[q].status)'
      <3>1. mem[q].status \in OrderStatus
        BY DEF TypeOK, Row
      <3> QED BY <3>1, <1>0 DEF Backed, EventsGrow
    <2>3. pc'[o] \in Opening => pc[o] \in Opening
      BY OpeningShrinks
    <2>4. pc[o] \notin Opening /\ RowBacked(o) => RowBacked(o)'
      BY <1>2
    <2> QED BY <1>0, <2>1, <2>2, <2>3, <2>4 DEF OtherHeld
  <1> QED BY <1>0, <1>1, <1>2 DEF HeldOK

(* A step that writes no row keeps the evidence when it does for what its  *)
(* own request holds.                                                      *)
LEMMA QuietEvidence ==
  ASSUME TypeOK, EvidenceInv, NEW r \in Req, OthersStay(r), EventsGrow, UNCHANGED orders, HeldOK(r)'
  PROVE  EvidenceInv'
  <1>1. \A o \in Req : RowOK(o)' /\ (RowBacked(o) => RowBacked(o)')
    BY RowStays DEF EvidenceInv
  <1>2. ASSUME NEW q \in Req, q # r PROVE HeldOK(q)'
    BY <1>1, <1>2, OthersHold
  <1> QED BY <1>1, <1>2 DEF EvidenceInv

(* A request that neither is about to save nor has begun to holds nothing  *)
(* that could be wrong, but a reason.                                      *)
LEMMA HeldBefore ==
  ASSUME NEW r \in Req,
         pc[r] \in Pc \ {"manifest", "createSelect", "createUpdate", "failSelect", "failUpdate",
                         "trackSelect", "trackUpdate", "cancelUpdate"},
         pc[r] \in TrackPc \cup CancelPc /\ mem[r].failureReason =>
            \A o \in Req : target[r] = o => pc[o] \notin Opening
  PROVE  HeldOK(r)
  BY DEF HeldOK, CreateHeld, OtherHeld

(* An UPDATE: the row gets what its request holds, which is backed, or the *)
(* failure with its reason, when the create ends.                          *)
LEMMA WriteEvidence ==
  ASSUME IInv, EvidenceInv, NEW r \in Req, pc[r] \in Saving, UpdateRow(r), OthersStay(r),
         UNCHANGED <<mem, target>>, pc'[r] \in {"placedEvent", "done", "readEvents", "cancelEvent"},
         pc'[r] \in Opening => pc[r] = "createUpdate",
         pc'[r] \in TrackPc \cup CancelPc => pc[r] \in TrackPc \cup CancelPc
  PROVE  EvidenceInv'
  <1> DEFINE o == target[r]
             n == Merge(orders[o], mem[r], dirty[r])
  <1>1. /\ o \in Req /\ mem[r] \in Row /\ orders[o] \in Row /\ TypeOK
        /\ pc[r] \in CreatePc => o = r
    BY DEF IInv, TypeInv, TypeOK, TargetOK, PlacedInv, Saving, InFlight, CreatePc, TrackPc, CancelPc
  <1>2. orders'[o] = n /\ \A q \in Req \ {o} : orders'[q] = orders[q]
    BY <1>1 DEF UpdateRow, TypeOK
  <1>3. n.status \in {mem[r].status, orders[o].status} /\ n.failureReason \in {mem[r].failureReason, orders[o].failureReason}
    BY DEF Merge
  <1>4. EventsGrow /\ \A s : HasEvent(o, s) <=> HasEvent(o, s)'
    BY SameEvidence DEF UpdateRow, HasEvent
  <1>5. RowOK(o) /\ HeldOK(r)
    BY <1>1 DEF EvidenceInv
  <1>6. pc'[o] \in Opening => pc[o] \in Opening
    BY <1>1, OpeningShrinks
  <1>7. RowOK(o)' /\ (pc[o] \notin Opening /\ RowBacked(o) => RowBacked(o)')
    <2>1. CASE pc[r] = "createUpdate"
      <3>1. mem[r].status = "CREATED" /\ "failureReason" \notin dirty[r] /\ pc[o] \in Opening
        BY <1>1, <1>5, <2>1 DEF HeldOK, CreateHeld, Opening, CreatePc
      <3>2. n.failureReason = orders[o].failureReason
        BY <3>1 DEF Merge
      <3>3. RowBacked(o) /\ ~orders[o].failureReason
        BY <1>5, <3>1 DEF RowOK
      <3>4. RowBacked(o)'
        BY <1>2, <1>3, <1>4, <3>1, <3>3 DEF RowBacked, Backed
      <3> QED BY <1>2, <3>1, <3>2, <3>3, <3>4 DEF RowOK
    <2>2. CASE pc[r] = "failUpdate"
      <3>1. /\ mem[r].status = "FAILED" /\ mem[r].failureReason /\ "failureReason" \in dirty[r]
            /\ pc[o] \in Opening /\ pc'[o] \notin Opening
        BY <1>1, <1>5, <2>2 DEF HeldOK, CreateHeld, Opening, CreatePc
      <3>2. n.failureReason = mem[r].failureReason
        BY <3>1 DEF Merge
      <3>3. RowBacked(o)
        BY <1>5, <3>1 DEF RowOK
      <3>4. n.status = orders[o].status => RowBacked(o)'
        BY <1>2, <1>4, <3>3 DEF RowBacked, Backed
      <3> QED BY <1>2, <1>3, <3>1, <3>2, <3>4 DEF RowOK
    <2>3. CASE pc[r] \in {"trackUpdate", "cancelUpdate"}
      <3>1. OtherHeld(r, o)
        BY <1>1, <1>5, <2>3 DEF HeldOK, TrackPc, CancelPc
      <3>2. Backed(o, mem[r].status)
        BY <2>3, <3>1 DEF OtherHeld
      <3>3. n.status = mem[r].status => RowBacked(o)'
        BY <1>2, <1>4, <3>2 DEF RowBacked, Backed
      <3>4. n.status = orders[o].status /\ RowBacked(o) => RowBacked(o)'
        BY <1>2, <1>4 DEF RowBacked, Backed
      <3>5. CASE "failureReason" \in dirty[r]
        <4>1. n.failureReason = mem[r].failureReason
          BY <3>5 DEF Merge
        <4>2. pc[o] \notin Opening
          BY <2>3, <3>1, <3>5 DEF OtherHeld
        <4>3. CASE mem[r].failureReason
          <5>1. RowBacked(o)' \/ (n.status = "FAILED" /\ n.failureReason)
            BY <1>3, <1>5, <3>3, <3>4, <4>1, <4>3 DEF RowOK
          <5> QED BY <1>2, <1>3, <1>6, <3>3, <3>4, <4>2, <5>1 DEF RowOK
        <4>4. CASE ~mem[r].failureReason
          <5>1. "status" \notin dirty[r] => RowBacked(o)
            BY <2>3, <3>1, <3>5, <4>4 DEF OtherHeld
          <5>2. "status" \in dirty[r] => n.status = mem[r].status
            BY DEF Merge
          <5>3. "status" \notin dirty[r] => n.status = orders[o].status
            BY DEF Merge
          <5>4. RowBacked(o)'
            BY <3>3, <3>4, <5>1, <5>2, <5>3
          <5> QED BY <1>6, <4>2, <5>4 DEF RowOK
        <4> QED BY <4>3, <4>4
      <3>6. CASE "failureReason" \notin dirty[r]
        <4>1. n.failureReason = orders[o].failureReason
          BY <3>6 DEF Merge
        <4>2. RowBacked(o) => RowBacked(o)'
          BY <1>3, <3>3, <3>4
        <4>3. RowBacked(o)' \/ (n.status = "FAILED" /\ n.failureReason)
          BY <1>3, <1>5, <3>3, <4>1, <4>2 DEF RowOK
        <4> QED BY <1>2, <1>5, <1>6, <4>1, <4>2, <4>3 DEF RowOK
      <3> QED BY <3>5, <3>6
    <2> QED BY <2>1, <2>2, <2>3 DEF Saving
  <1>8. ASSUME NEW q \in Req, q # o PROVE RowOK(q)' /\ (RowBacked(q) => RowBacked(q)')
    <2>1. RowOK(q) /\ orders'[q] = orders[q]
      BY <1>2, <1>8 DEF EvidenceInv
    <2> QED BY <1>1, <1>4, <2>1, RowStays
  <1>9. ASSUME NEW q \in Req, q # r PROVE HeldOK(q)'
    BY <1>1, <1>4, <1>7, <1>8, <1>9, OthersHold
  <1>10. HeldOK(r)'
    <2>1. pc[r] = "createUpdate" => ~mem[r].failureReason
      BY <1>5 DEF HeldOK, CreateHeld
    <2>2. CreateHeld(r)'
      BY <2>1 DEF CreateHeld
    <2>3. ASSUME NEW q \in Req, pc'[r] \in TrackPc \cup CancelPc, target'[r] = q PROVE OtherHeld(r, q)'
      <3>1. OtherHeld(r, q)
        BY <1>5, <2>3 DEF HeldOK
      <3>2. pc'[q] \in Opening => pc[q] \in Opening
        BY OpeningShrinks
      <3> QED BY <3>1, <3>2 DEF OtherHeld
    <2> QED BY <2>2, <2>3 DEF HeldOK
  <1> QED BY <1>7, <1>8, <1>9, <1>10 DEF EvidenceInv

(* The first half of a save: the reason is among the columns to write only *)
(* if the row and the entity disagree about it.                            *)
LEMMA SelectDirty ==
  ASSUME TypeOK, NEW r \in Req, target[r] \in Req, SelectForSave(r)
  PROVE  /\ "failureReason" \in dirty'[r] <=> mem[r].failureReason # orders[target[r]].failureReason
         /\ "status" \in dirty'[r] <=> mem[r].status # orders[target[r]].status
         /\ \A q \in Req \ {r} : dirty'[q] = dirty[q]
  <1>1. dirty'[r] = Differ(mem[r], orders[target[r]])
    BY DEF TypeOK, SelectForSave
  <1>2. \A q \in Req \ {r} : dirty'[q] = dirty[q]
    BY DEF TypeOK, SelectForSave
  <1>3. /\ "failureReason" \in Column /\ "status" \in Column
        /\ "failureReason" # "status" /\ "failureReason" # "awb" /\ "failureReason" # "cancelledBy"
        /\ "status" # "awb" /\ "status" # "cancelledBy"
    BY DEF Column
  <1> QED BY <1>1, <1>2, <1>3 DEF Differ

(* The steps of createOrder keep the evidence.                             *)
LEMMA CreateEvidence ==
  ASSUME IInv, IInv', EvidenceInv, NEW r \in Req, createOrder(r)
  PROVE  EvidenceInv'
  <1>0. TypeOK /\ TypeInv /\ RowOK(r) /\ HeldOK(r) /\ (pc[r] \in CreatePc => target[r] = r) /\ pc'[r] \in Pc
    BY DEF IInv, TypeInv, TypeOK, PlacedInv, EvidenceInv
  <1>1. CASE CreateFind(r)
    <2>1. /\ pc[r] = "idle" /\ pc'[r] \in {"done", "insert"}
          /\ OthersStay(r) /\ UNCHANGED <<orders, events>>
      BY <1>0, <1>1 DEF CreateFind, Finish, Goto, OthersStay, TypeOK, Opening
    <2>2. HeldOK(r)'
      BY <2>1 DEF HeldOK, CreateHeld, TrackPc, CancelPc
    <2> QED BY <1>0, <2>1, <2>2, SameEvidence, QuietEvidence
  <1>2. CASE Insert(r)
    <2>1. pc[r] = "insert" /\ UNCHANGED <<events, target, dirty>>
      BY <1>2 DEF Insert
    <2>2. CASE ExtTaken(ext[r])
      <3>1. pc'[r] = "done" /\ OthersStay(r) /\ UNCHANGED orders
        BY <1>0, <1>2, <2>2 DEF Insert, Finish, OthersStay, TypeOK, Opening, CreatePc
      <3>2. HeldOK(r)'
        BY <3>1 DEF HeldOK, CreateHeld, TrackPc, CancelPc
      <3> QED BY <1>0, <2>1, <3>1, <3>2, SameEvidence, QuietEvidence
    <2>3. CASE ~ExtTaken(ext[r])
      <3>1. /\ orders' = [orders EXCEPT ![r] = NewOrder] /\ mem' = [mem EXCEPT ![r] = NewOrder]
            /\ pc' = [pc EXCEPT ![r] = "manifest"]
        BY <1>2, <2>3 DEF Insert, Goto
      <3>2. /\ pc'[r] = "manifest" /\ mem'[r] = NewOrder /\ orders'[r] = NewOrder
            /\ \A q \in Req \ {r} : orders'[q] = orders[q] /\ pc'[q] = pc[q] /\ mem'[q] = mem[q]
        BY <1>0, <3>1 DEF TypeOK
      <3>3. OthersStay(r) /\ EventsGrow /\ pc[r] \in Opening
        BY <2>1, <3>2, SameEvidence DEF OthersStay, Opening, CreatePc
      <3>4. NewOrder.status = "CREATED" /\ NewOrder.failureReason = FALSE
        BY DEF NewOrder
      <3>5. RowOK(r)' /\ HeldOK(r)'
        BY <3>2, <3>4 DEF RowOK, RowBacked, Backed, HeldOK, CreateHeld, TrackPc, CancelPc
      <3>6. ASSUME NEW q \in Req, q # r PROVE RowOK(q)' /\ (RowBacked(q) => RowBacked(q)')
        <4>1. RowOK(q) /\ orders'[q] = orders[q]
          BY <3>2, <3>6 DEF EvidenceInv
        <4> QED BY <1>0, <3>3, <4>1, RowStays
      <3>7. ASSUME NEW q \in Req, q # r PROVE HeldOK(q)'
        <4>1. \A o \in Req : target[q] = o /\ pc[o] \notin Opening /\ RowBacked(o) => RowBacked(o)'
          BY <3>3, <3>6
        <4> QED BY <1>0, <3>3, <3>7, <4>1, OthersHold
      <3> QED BY <3>5, <3>6, <3>7 DEF EvidenceInv
    <2> QED BY <2>2, <2>3
  <1>3. CASE Manifest(r)
    <2>1. /\ pc[r] = "manifest" /\ pc'[r] \in {"createSelect", "failSelect"}
          /\ UNCHANGED <<orders, events, target, dirty>> /\ OthersStay(r)
      BY <1>0, <1>3 DEF Manifest, Goto, RecordFailure, OthersStay, TypeOK, Opening, CreatePc
    <2>2. mem[r] \in Row /\ ~mem[r].failureReason
      BY <1>0, <2>1 DEF TypeOK, HeldOK, CreateHeld
    <2>3. pc'[r] = "createSelect" => mem'[r].status = "CREATED" /\ ~mem'[r].failureReason
      <3>1. pc'[r] = "createSelect" => mem' = [mem EXCEPT ![r].awb = TRUE, ![r].status = "CREATED"]
        BY <1>0, <1>3 DEF Manifest, Goto, TypeOK
      <3>2. mem' = [mem EXCEPT ![r].awb = TRUE, ![r].status = "CREATED"] =>
              mem'[r].status = "CREATED" /\ mem'[r].failureReason = mem[r].failureReason
        BY <1>0, <2>2 DEF TypeOK, Row
      <3> QED BY <2>2, <3>1, <3>2
    <2>4. pc'[r] = "failSelect" => mem'[r].status = "FAILED" /\ mem'[r].failureReason
      BY <1>0, <1>3, <2>2 DEF Manifest, RecordFailure, Goto, TypeOK, Row
    <2>5. HeldOK(r)'
      BY <2>1, <2>3, <2>4 DEF HeldOK, CreateHeld, TrackPc, CancelPc
    <2> QED BY <1>0, <2>1, <2>5, SameEvidence, QuietEvidence
  <1>4. CASE CreateSelect(r)
    <2>1. /\ pc[r] = "createSelect" /\ pc'[r] = "createUpdate" /\ target[r] = r
          /\ UNCHANGED <<orders, events, target, mem>> /\ SelectForSave(r)
          /\ \A q \in Req \ {r} : pc'[q] = pc[q]
      BY <1>0, <1>4 DEF CreateSelect, Goto, TypeOK, CreatePc
    <2>2. "failureReason" \notin dirty'[r] /\ \A q \in Req \ {r} : dirty'[q] = dirty[q]
      <3>1. ~mem[r].failureReason /\ ~orders[r].failureReason
        BY <1>0, <2>1 DEF HeldOK, CreateHeld, RowOK, Opening, CreatePc
      <3>2. mem[r].failureReason = orders[r].failureReason
        BY <1>0, <3>1 DEF TypeOK, Row
      <3> QED BY <1>0, <2>1, <3>2, SelectDirty
    <2>3. OthersStay(r)
      BY <2>1, <2>2 DEF OthersStay, Opening, CreatePc
    <2>4. HeldOK(r)'
      BY <1>0, <2>1, <2>2 DEF HeldOK, CreateHeld, TrackPc, CancelPc
    <2> QED BY <1>0, <2>1, <2>3, <2>4, SameEvidence, QuietEvidence
  <1>5. CASE CreateUpdate(r)
    <2>1. /\ pc[r] = "createUpdate" /\ pc'[r] = "placedEvent" /\ UpdateRow(r) /\ UNCHANGED <<target, mem>>
          /\ \A q \in Req \ {r} : pc'[q] = pc[q] /\ dirty'[q] = dirty[q]
      BY <1>0, <1>5 DEF CreateUpdate, Goto, UpdateRow, TypeOK
    <2>2. OthersStay(r)
      BY <2>1 DEF OthersStay, Opening, CreatePc
    <2> QED BY <2>1, <2>2, WriteEvidence DEF Saving, TrackPc, CancelPc
  <1>6. CASE PlacedEvent(r)
    <2>1. /\ pc[r] = "placedEvent" /\ pc'[r] = "done" /\ OthersStay(r)
          /\ UNCHANGED orders /\ appendTrackingEvent(r, ServiceEvent("CREATED"))
      BY <1>0, <1>6 DEF PlacedEvent, Finish, appendTrackingEvent, OthersStay, TypeOK, Opening, CreatePc
    <2>2. HeldOK(r)'
      BY <2>1 DEF HeldOK, CreateHeld, TrackPc, CancelPc
    <2>3. EventsGrow
      BY <1>0, <2>1, EventType, AppendEvidence
    <2> QED BY <1>0, <2>1, <2>2, <2>3, QuietEvidence
  <1>7. CASE FailSelect(r)
    <2>1. /\ pc[r] = "failSelect" /\ pc'[r] = "failUpdate" /\ target[r] = r
          /\ UNCHANGED <<orders, events, target, mem>> /\ SelectForSave(r)
          /\ \A q \in Req \ {r} : pc'[q] = pc[q]
      BY <1>0, <1>7 DEF FailSelect, Goto, TypeOK, CreatePc
    <2>2. "failureReason" \in dirty'[r] /\ \A q \in Req \ {r} : dirty'[q] = dirty[q]
      <3>1. mem[r].failureReason /\ ~orders[r].failureReason
        BY <1>0, <2>1 DEF HeldOK, CreateHeld, RowOK, Opening, CreatePc
      <3> QED BY <1>0, <2>1, <3>1, SelectDirty
    <2>3. OthersStay(r)
      BY <2>1, <2>2 DEF OthersStay, Opening, CreatePc
    <2>4. HeldOK(r)'
      BY <1>0, <2>1, <2>2 DEF HeldOK, CreateHeld, TrackPc, CancelPc
    <2> QED BY <1>0, <2>1, <2>3, <2>4, SameEvidence, QuietEvidence
  <1>8. CASE FailUpdate(r)
    <2>1. /\ pc[r] = "failUpdate" /\ pc'[r] = "done" /\ UpdateRow(r) /\ UNCHANGED <<target, mem>>
          /\ \A q \in Req \ {r} : pc'[q] = pc[q] /\ dirty'[q] = dirty[q]
      BY <1>0, <1>8 DEF FailUpdate, Finish, UpdateRow, TypeOK
    <2>2. OthersStay(r) /\ pc'[r] \notin Opening
      BY <2>1 DEF OthersStay, Opening, CreatePc
    <2> QED BY <2>1, <2>2, WriteEvidence DEF Saving, TrackPc, CancelPc
  <1> QED BY <1>1, <1>2, <1>3, <1>4, <1>5, <1>6, <1>7, <1>8 DEF createOrder

(* A track or cancel request that has not come to its save keeps what it   *)
(* holds, the reason included.                                             *)
LEMMA HeldMoves ==
  ASSUME NEW r \in Req, pc[r] \in TrackPc \cup CancelPc, HeldOK(r), OthersStay(r),
         target'[r] = target[r], mem'[r].failureReason = mem[r].failureReason,
         pc'[r] \in {"done", "fetch", "append", "readEvents", "courierCancel", "cancelSelect", "cancelEvent"}
  PROVE  HeldOK(r)'
  <1>1. CreateHeld(r)'
    BY DEF CreateHeld
  <1>2. ASSUME NEW o \in Req, target'[r] = o PROVE OtherHeld(r, o)'
    <2>1. OtherHeld(r, o)
      BY <1>2 DEF HeldOK
    <2>2. pc'[o] \in Opening => pc[o] \in Opening
      BY OpeningShrinks
    <2> QED BY <2>1, <2>2 DEF OtherHeld
  <1> QED BY <1>1, <1>2 DEF HeldOK

(* What a request holds of the status a reply carried is backed by the     *)
(* event it saved last.                                                    *)
LEMMA HeldReply ==
  ASSUME TypeOK, NEW r \in Req, pc[r] \in TrackPc, HeldOK(r), OthersStay(r), target'[r] = target[r],
         target[r] \in Req, NEW n, AfterReply(r, n),
         \A s : currentStatus(target[r], n) = s => Backed(target[r], s)'
  PROVE  HeldOK(r)'
  <1>1. CASE pc'[r] = "readEvents" /\ UNCHANGED mem
    BY <1>1, HeldMoves
  <1>2. CASE /\ mem' = [mem EXCEPT ![r].status = currentStatus(target[r], n)]
             /\ pc'[r] = "trackSelect"
    <2>1. /\ mem'[r].status = currentStatus(target[r], n)
          /\ mem'[r].failureReason = mem[r].failureReason
      BY <1>2 DEF TypeOK, Row
    <2>2. CreateHeld(r)'
      BY <1>2 DEF CreateHeld
    <2>3. ASSUME NEW o \in Req, target'[r] = o PROVE OtherHeld(r, o)'
      <3>1. OtherHeld(r, o)
        BY <2>3 DEF HeldOK
      <3>2. pc'[o] \in Opening => pc[o] \in Opening
        BY OpeningShrinks
      <3>3. Backed(o, mem[r].status)'
        BY <2>1, <2>3 DEF Backed
      <3> QED BY <1>2, <2>1, <3>1, <3>2, <3>3 DEF OtherHeld
    <2> QED BY <2>2, <2>3 DEF HeldOK
  <1>3. pc'[r] \in {"readEvents", "trackSelect"}
    BY DEF AfterReply, Goto, TypeOK
  <1> QED BY <1>1, <1>2, <1>3 DEF AfterReply, Goto, TypeOK

(* The first half of a save of a track or cancel request: whatever it will *)
(* take away it has seen.                                                  *)
LEMMA HeldSelect ==
  ASSUME TypeOK, EvidenceInv, NEW r \in Req, OthersStay(r), target'[r] = target[r], target[r] \in Req,
         UNCHANGED <<orders, events>>, pc[r] \in TrackPc \cup CancelPc, pc'[r] \in {"trackUpdate", "cancelUpdate"},
         mem'[r].failureReason = mem[r].failureReason,
         Backed(target[r], mem'[r].status),
         "failureReason" \in dirty'[r] <=> mem'[r].failureReason # orders[target[r]].failureReason,
         "status" \in dirty'[r] <=> mem'[r].status # orders[target[r]].status
  PROVE  HeldOK(r)'
  <1>1. CreateHeld(r)'
    BY DEF CreateHeld
  <1>2. ASSUME NEW o \in Req, target'[r] = o PROVE OtherHeld(r, o)'
    <2>1. OtherHeld(r, o) /\ RowOK(o)
      BY <1>2 DEF HeldOK, EvidenceInv
    <2>2. pc'[o] \in Opening => pc[o] \in Opening
      BY OpeningShrinks
    <2>3. Backed(o, mem[r].status)'
      BY <1>2 DEF Backed, HasEvent
    <2>4. ASSUME "failureReason" \in dirty'[r], ~mem'[r].failureReason
          PROVE  pc'[o] \notin Opening
      <3>1. orders[o].failureReason \in BOOLEAN /\ mem[r].failureReason \in BOOLEAN
        BY DEF TypeOK, Row
      <3>2. mem[r].failureReason # orders[o].failureReason
        BY <1>2, <2>4
      <3>3. ~mem[r].failureReason
        BY <2>4
      <3>4. orders[o].failureReason
        BY <3>1, <3>2, <3>3
      <3> QED BY <2>1, <2>2, <3>4 DEF RowOK
    <2>5. ASSUME "status" \notin dirty'[r] PROVE RowBacked(o)'
      <3>1. mem'[r].status = orders'[o].status
        BY <1>2, <2>5
      <3> QED BY <2>3, <3>1 DEF RowBacked, Backed
    <2> QED BY <2>1, <2>2, <2>3, <2>4, <2>5 DEF OtherHeld
  <1> QED BY <1>1, <1>2 DEF HeldOK

(* The steps of trackOrder keep the evidence.                              *)
LEMMA TrackEvidence ==
  ASSUME IInv, IInv', EvidenceInv, NEW r \in Req, trackOrder(r)
  PROVE  EvidenceInv'
  <1>0. /\ TypeOK /\ HeldOK(r) /\ (pc[r] \in TrackPc => target[r] \in Req) /\ pc'[r] \in Pc
        /\ pc[r] = "idle" => r \notin placed
    BY DEF IInv, TypeInv, TypeOK, TargetOK, InFlight, PlacedInv, EvidenceInv
  <1>1. CASE TrackFind(r)
    <2>1. /\ pc[r] = "idle" /\ UNCHANGED <<orders, events, dirty>>
          /\ \A q \in Req \ {r} : pc'[q] = pc[q] /\ mem'[q] = mem[q] /\ target'[q] = target[q]
      BY <1>0, <1>1 DEF TrackFind, LoadEntity, Goto, Finish, TypeOK
    <2>2. OthersStay(r)
      BY <2>1 DEF OthersStay, Opening
    <2>3. CASE pc'[r] = "done"
      <3>1. HeldOK(r)'
        BY <2>3 DEF HeldOK, CreateHeld, TrackPc, CancelPc
      <3> QED BY <1>0, <2>1, <2>2, <3>1, SameEvidence, QuietEvidence
    <2>4. CASE pc'[r] # "done"
      <3>1. PICK o \in Req : o \in placed /\ LoadEntity(r, o) /\ Goto(r, IF orders[o].awb THEN "fetch" ELSE "readEvents")
        BY <1>0, <1>1, <2>4 DEF TrackFind, Finish, TypeOK
      <3>2. target'[r] = o /\ mem'[r] = orders[o] /\ pc'[r] \in {"fetch", "readEvents"} /\ o # r /\ RowOK(o)
        BY <1>0, <2>1, <3>1 DEF LoadEntity, Goto, TypeOK, EvidenceInv
      <3>3. CreateHeld(r)'
        BY <3>2 DEF CreateHeld
      <3>4. OtherHeld(r, o)'
        BY <2>1, <3>2 DEF OtherHeld, RowOK
      <3>5. HeldOK(r)'
        BY <3>2, <3>3, <3>4 DEF HeldOK
      <3> QED BY <1>0, <2>1, <2>2, <3>5, SameEvidence, QuietEvidence
    <2> QED BY <2>3, <2>4
  <1>2. CASE Fetch(r)
    <2>1. /\ pc[r] = "fetch" /\ UNCHANGED <<orders, events, target, dirty>>
          /\ pc'[r] \in {"append", "readEvents", "trackSelect"}
          /\ \A q \in Req \ {r} : pc'[q] = pc[q] /\ mem'[q] = mem[q]
      BY <1>0, <1>2 DEF Fetch, AfterReply, Goto, TypeOK
    <2>2. OthersStay(r) /\ pc[r] \in TrackPc
      BY <2>1 DEF OthersStay, Opening, CreatePc, TrackPc
    <2>3. HeldOK(r)'
      <3>1. CASE AfterReply(r, 0)
        <4>1. \A s : currentStatus(target[r], 0) = s => Backed(target[r], s)'
          BY DEF currentStatus, Backed
        <4> QED BY <1>0, <2>1, <2>2, <3>1, <4>1, HeldReply
      <3>2. CASE pc'[r] \in {"append", "readEvents"} /\ UNCHANGED mem
        BY <1>0, <2>1, <2>2, <3>2, HeldMoves
      <3> QED BY <1>0, <1>2, <3>1, <3>2 DEF Fetch, Goto, TypeOK
    <2> QED BY <1>0, <2>1, <2>2, <2>3, SameEvidence, QuietEvidence
  <1>3. CASE AppendScan(r)
    <2> DEFINE n == appended[r] + 1
               ev == CourierEvent(target[r], n)
    <2>1. /\ pc[r] = "append" /\ UNCHANGED <<orders, target, dirty>>
          /\ pc'[r] \in {"append", "readEvents", "trackSelect"} /\ n \in Nat /\ n # 0
          /\ \A q \in Req \ {r} : pc'[q] = pc[q] /\ mem'[q] = mem[q]
          /\ appendTrackingEvent(target[r], ev)
          /\ (pc'[r] = "append" /\ UNCHANGED mem) \/ AfterReply(r, n)
      BY <1>0, <1>3 DEF AppendScan, AfterReply, appendTrackingEvent, Goto, TypeOK
    <2>2. OthersStay(r) /\ pc[r] \in TrackPc
      BY <2>1 DEF OthersStay, Opening, CreatePc, TrackPc
    <2>3. EventsGrow /\ \A s : ev.normalizedStatus = s => HasEvent(target[r], s)'
      <3>1. ev \in Event /\ target[r] \in Req
        BY <1>0, <2>1, <2>2, EventType
      <3>2. UNCHANGED target
        BY <2>1
      <3>3. \A o \in Req : appendTrackingEvent(o, ev) => EventsGrow /\ \A s : ev.normalizedStatus = s => HasEvent(o, s)'
        BY <1>0, <3>1, AppendEvidence
      <3> QED BY <2>1, <3>1, <3>2, <3>3
    <2>4. HeldOK(r)'
      <3>1. CASE AfterReply(r, n)
        <4>1. currentStatus(target[r], n) = ev.normalizedStatus
          BY <2>1 DEF currentStatus, CourierEvent
        <4>2. \A s : currentStatus(target[r], n) = s => Backed(target[r], s)'
          BY <2>3, <4>1 DEF Backed
        <4> QED BY <1>0, <2>1, <2>2, <3>1, <4>2, HeldReply
      <3>2. CASE pc'[r] = "append" /\ UNCHANGED mem
        BY <1>0, <2>1, <2>2, <3>2, HeldMoves
      <3> QED BY <2>1, <3>1, <3>2
    <2> QED BY <1>0, <2>1, <2>2, <2>3, <2>4, QuietEvidence
  <1>4. CASE TrackSelect(r)
    <2>1. /\ pc[r] = "trackSelect" /\ pc'[r] = "trackUpdate" /\ SelectForSave(r)
          /\ UNCHANGED <<orders, events, target, mem>> /\ \A q \in Req \ {r} : pc'[q] = pc[q]
      BY <1>0, <1>4 DEF TrackSelect, Goto, TypeOK
    <2>2. /\ pc[r] \in TrackPc /\ target[r] \in Req
          /\ \A q \in Req \ {r} : dirty'[q] = dirty[q]
          /\ "failureReason" \in dirty'[r] <=> mem[r].failureReason # orders[target[r]].failureReason
          /\ "status" \in dirty'[r] <=> mem[r].status # orders[target[r]].status
      BY <1>0, <2>1, SelectDirty DEF TrackPc
    <2>3. OthersStay(r)
      BY <2>1, <2>2 DEF OthersStay, Opening, CreatePc
    <2>4. Backed(target[r], mem'[r].status)
      BY <1>0, <2>1, <2>2 DEF HeldOK, OtherHeld
    <2>5. HeldOK(r)'
      BY <1>0, <2>1, <2>2, <2>3, <2>4, HeldSelect
    <2> QED BY <1>0, <2>1, <2>3, <2>5, SameEvidence, QuietEvidence
  <1>5. CASE TrackUpdate(r)
    <2>1. /\ pc[r] = "trackUpdate" /\ pc'[r] = "readEvents" /\ UpdateRow(r) /\ UNCHANGED <<target, mem>>
          /\ \A q \in Req \ {r} : pc'[q] = pc[q] /\ dirty'[q] = dirty[q]
      BY <1>0, <1>5 DEF TrackUpdate, Goto, UpdateRow, TypeOK
    <2>2. OthersStay(r) /\ pc'[r] \notin Opening /\ pc[r] \in TrackPc
      BY <2>1 DEF OthersStay, Opening, CreatePc, TrackPc
    <2> QED BY <2>1, <2>2, WriteEvidence DEF Saving
  <1>6. CASE ReadEvents(r)
    <2>1. /\ pc[r] = "readEvents" /\ pc'[r] = "done" /\ UNCHANGED <<orders, events, target, mem, dirty>>
          /\ \A q \in Req \ {r} : pc'[q] = pc[q]
      BY <1>0, <1>6 DEF ReadEvents, Finish, TypeOK
    <2>2. OthersStay(r)
      BY <2>1 DEF OthersStay, Opening, CreatePc
    <2>3. HeldOK(r)'
      BY <2>1 DEF HeldOK, CreateHeld, TrackPc, CancelPc
    <2> QED BY <1>0, <2>1, <2>2, <2>3, SameEvidence, QuietEvidence
  <1> QED BY <1>1, <1>2, <1>3, <1>4, <1>5, <1>6 DEF trackOrder

(* The steps of cancelOrder keep the evidence.                             *)
LEMMA CancelEvidence ==
  ASSUME IInv, IInv', EvidenceInv, NEW r \in Req, cancelOrder(r)
  PROVE  EvidenceInv'
  <1>0. /\ TypeOK /\ HeldOK(r) /\ (pc[r] \in CancelPc => target[r] \in Req) /\ pc'[r] \in Pc
        /\ pc[r] = "idle" => r \notin placed
    BY DEF IInv, TypeInv, TypeOK, TargetOK, InFlight, PlacedInv, EvidenceInv
  <1>1. CASE CancelFind(r)
    <2>1. /\ pc[r] = "idle" /\ UNCHANGED <<orders, events, dirty>>
          /\ \A q \in Req \ {r} : pc'[q] = pc[q] /\ mem'[q] = mem[q] /\ target'[q] = target[q]
      BY <1>0, <1>1 DEF CancelFind, LoadEntity, Goto, Finish, TypeOK
    <2>2. OthersStay(r)
      BY <2>1 DEF OthersStay, Opening
    <2>3. CASE pc'[r] = "done"
      <3>1. HeldOK(r)'
        BY <2>3 DEF HeldOK, CreateHeld, TrackPc, CancelPc
      <3> QED BY <1>0, <2>1, <2>2, <3>1, SameEvidence, QuietEvidence
    <2>4. CASE pc'[r] # "done"
      <3>1. PICK o \in Req : /\ o \in placed /\ LoadEntity(r, o)
                             /\ Goto(r, IF orders[o].awb THEN "courierCancel" ELSE "cancelSelect")
        BY <1>0, <1>1, <2>4 DEF CancelFind, Finish, TypeOK
      <3>2. target'[r] = o /\ mem'[r] = orders[o] /\ pc'[r] \in {"courierCancel", "cancelSelect"} /\ o # r /\ RowOK(o)
        BY <1>0, <2>1, <3>1 DEF LoadEntity, Goto, TypeOK, EvidenceInv
      <3>3. CreateHeld(r)'
        BY <3>2 DEF CreateHeld
      <3>4. OtherHeld(r, o)'
        BY <2>1, <3>2 DEF OtherHeld, RowOK
      <3>5. HeldOK(r)'
        BY <3>2, <3>3, <3>4 DEF HeldOK
      <3> QED BY <1>0, <2>1, <2>2, <3>5, SameEvidence, QuietEvidence
    <2> QED BY <2>3, <2>4
  <1>2. CASE CourierCancel(r)
    <2>1. /\ pc[r] = "courierCancel" /\ pc'[r] = "cancelSelect"
          /\ UNCHANGED <<orders, events, target, mem, dirty>> /\ \A q \in Req \ {r} : pc'[q] = pc[q]
      BY <1>0, <1>2 DEF CourierCancel, Goto, TypeOK
    <2>2. OthersStay(r) /\ pc[r] \in CancelPc
      BY <2>1 DEF OthersStay, Opening, CreatePc, CancelPc
    <2>3. HeldOK(r)'
      BY <1>0, <2>1, <2>2, HeldMoves
    <2> QED BY <1>0, <2>1, <2>2, <2>3, SameEvidence, QuietEvidence
  <1>3. CASE CancelSelect(r)
    <2>1. /\ pc[r] = "cancelSelect" /\ pc'[r] = "cancelUpdate"
          /\ UNCHANGED <<orders, events, target>> /\ \A q \in Req \ {r} : pc'[q] = pc[q]
          /\ mem' = [mem EXCEPT ![r].status = "CANCELLED", ![r].cancelledBy = r]
          /\ dirty' = [dirty EXCEPT ![r] = Differ(mem'[r], orders[target[r]])]
      BY <1>0, <1>3 DEF CancelSelect, Goto, TypeOK
    <2>2. /\ pc[r] \in CancelPc /\ target[r] \in Req
          /\ mem'[r].status = "CANCELLED" /\ mem'[r].failureReason = mem[r].failureReason
          /\ \A q \in Req \ {r} : mem'[q] = mem[q] /\ dirty'[q] = dirty[q]
          /\ dirty'[r] = Differ(mem'[r], orders[target[r]])
      BY <1>0, <2>1 DEF TypeOK, Row, CancelPc
    <2>3. /\ "failureReason" \in dirty'[r] <=> mem'[r].failureReason # orders[target[r]].failureReason
          /\ "status" \in dirty'[r] <=> mem'[r].status # orders[target[r]].status
      <3>1. /\ "failureReason" \in Column /\ "status" \in Column
            /\ "failureReason" # "status" /\ "failureReason" # "awb" /\ "failureReason" # "cancelledBy"
            /\ "status" # "awb" /\ "status" # "cancelledBy"
        BY DEF Column
      <3> QED BY <2>2, <3>1 DEF Differ
    <2>4. OthersStay(r)
      BY <2>1, <2>2 DEF OthersStay, Opening, CreatePc
    <2>5. Backed(target[r], mem'[r].status)
      BY <2>2 DEF Backed
    <2>6. HeldOK(r)'
      BY <1>0, <2>1, <2>2, <2>3, <2>4, <2>5, HeldSelect
    <2> QED BY <1>0, <2>1, <2>4, <2>6, SameEvidence, QuietEvidence
  <1>4. CASE CancelUpdate(r)
    <2>1. /\ pc[r] = "cancelUpdate" /\ pc'[r] = "cancelEvent" /\ UpdateRow(r) /\ UNCHANGED <<target, mem>>
          /\ \A q \in Req \ {r} : pc'[q] = pc[q] /\ dirty'[q] = dirty[q]
      BY <1>0, <1>4 DEF CancelUpdate, Goto, UpdateRow, TypeOK
    <2>2. OthersStay(r) /\ pc'[r] \notin Opening /\ pc[r] \in CancelPc
      BY <2>1 DEF OthersStay, Opening, CreatePc, CancelPc
    <2> QED BY <2>1, <2>2, WriteEvidence DEF Saving
  <1>5. CASE CancelEvent(r)
    <2>1. /\ pc[r] = "cancelEvent" /\ pc'[r] = "done" /\ UNCHANGED <<orders, target, mem, dirty>>
          /\ \A q \in Req \ {r} : pc'[q] = pc[q]
          /\ appendTrackingEvent(target[r], ServiceEvent("CANCELLED"))
      BY <1>0, <1>5 DEF CancelEvent, Finish, appendTrackingEvent, TypeOK
    <2>2. OthersStay(r) /\ target[r] \in Req
      BY <1>0, <2>1 DEF OthersStay, Opening, CreatePc, CancelPc
    <2>3. HeldOK(r)'
      BY <2>1 DEF HeldOK, CreateHeld, TrackPc, CancelPc
    <2>4. EventsGrow
      BY <1>0, <2>1, <2>2, EventType, AppendEvidence
    <2> QED BY <1>0, <2>1, <2>2, <2>3, <2>4, QuietEvidence
  <1> QED BY <1>1, <1>2, <1>3, <1>4, <1>5 DEF cancelOrder

(* Faults, crashes and the courier's scans keep the evidence.              *)
LEMMA EnvironmentEvidence ==
  ASSUME IInv, IInv', EvidenceInv, NEW r \in Req, DbFault(r) \/ Crash(r) \/ CourierScan(r)
  PROVE  EvidenceInv'
  <1>0. TypeOK /\ HeldOK(r) /\ UNCHANGED <<orders, events, target, dirty>>
    BY DEF IInv, TypeInv, EvidenceInv, DbFault, Crash, CourierScan
  <1>1. CASE DbFault(r)
    <2>1. \A q \in Req \ {r} : pc'[q] = pc[q] /\ mem'[q] = mem[q]
      BY <1>0, <1>1 DEF DbFault, RecordFailure, Goto, Finish, TypeOK
    <2>2. CASE pc[r] \in {"createSelect", "createUpdate", "placedEvent"}
      <3>1. pc'[r] = "failSelect" /\ RecordFailure(r)
        BY <1>0, <1>1, <2>2 DEF DbFault, Goto, Finish, TypeOK
      <3>2. mem'[r].status = "FAILED" /\ mem'[r].failureReason
        BY <1>0, <3>1 DEF RecordFailure, TypeOK, Row
      <3>3. HeldOK(r)'
        BY <3>1, <3>2 DEF HeldOK, CreateHeld, TrackPc, CancelPc
      <3>4. OthersStay(r)
        BY <1>0, <2>1, <2>2 DEF OthersStay, Opening, CreatePc
      <3> QED BY <1>0, <3>3, <3>4, SameEvidence, QuietEvidence
    <2>3. CASE pc[r] \in {"append", "trackSelect", "trackUpdate"}
      <3>1. pc'[r] = "readEvents" /\ UNCHANGED mem
        BY <1>0, <1>1, <2>3 DEF DbFault, Goto, Finish, TypeOK
      <3>2. OthersStay(r) /\ pc[r] \in TrackPc
        BY <1>0, <2>1, <2>3, <3>1 DEF OthersStay, Opening, CreatePc, TrackPc
      <3>3. HeldOK(r)'
        BY <1>0, <3>1, <3>2, HeldMoves
      <3> QED BY <1>0, <3>2, <3>3, SameEvidence, QuietEvidence
    <2>4. CASE pc[r] \notin {"createSelect", "createUpdate", "placedEvent", "append", "trackSelect", "trackUpdate"}
      <3>1. pc'[r] = "done"
        BY <1>0, <1>1, <2>4 DEF DbFault, Goto, Finish, TypeOK
      <3>2. OthersStay(r)
        BY <1>0, <2>1, <3>1 DEF OthersStay, Opening, CreatePc
      <3>3. HeldOK(r)'
        BY <3>1 DEF HeldOK, CreateHeld, TrackPc, CancelPc
      <3> QED BY <1>0, <3>2, <3>3, SameEvidence, QuietEvidence
    <2> QED BY <2>2, <2>3, <2>4
  <1>2. CASE Crash(r)
    <2>1. pc'[r] = "crashed" /\ UNCHANGED mem /\ \A q \in Req \ {r} : pc'[q] = pc[q]
      BY <1>0, <1>2 DEF Crash, TypeOK
    <2>2. OthersStay(r)
      BY <1>0, <2>1 DEF OthersStay, Opening, CreatePc
    <2>3. HeldOK(r)'
      BY <2>1 DEF HeldOK, CreateHeld, TrackPc, CancelPc
    <2> QED BY <1>0, <2>2, <2>3, SameEvidence, QuietEvidence
  <1>3. CASE CourierScan(r)
    <2>1. UNCHANGED <<pc, mem>>
      BY <1>3 DEF CourierScan
    <2> QED BY <1>0, <2>1 DEF EvidenceInv, RowOK, RowBacked, HeldOK, CreateHeld, OtherHeld, Backed, HasEvent
  <1> QED BY <1>1, <1>2, <1>3

(* Every step keeps the evidence.                                          *)
LEMMA NextEvidence == IInv /\ IInv' /\ EvidenceInv /\ [Next]_vars => EvidenceInv'
  <1> SUFFICES ASSUME IInv, IInv', EvidenceInv, [Next]_vars PROVE EvidenceInv'
    OBVIOUS
  <1>1. CASE UNCHANGED vars
    BY <1>1 DEF vars, EvidenceInv, RowOK, RowBacked, HeldOK, CreateHeld, OtherHeld, Backed, HasEvent
  <1> QED BY <1>1, CreateEvidence, TrackEvidence, CancelEvidence, EnvironmentEvidence DEF Next, Serve

(* Whatever stale entity wrote a row last, its PICKED_UP or DELIVERED is   *)
(* in the audit trail, and its FAILED there or in its failure reason.      *)
THEOREM Evidence == Spec => []StatusHasEvidence
  <1>1. TypeInv /\ EvidenceInv => StatusHasEvidence
    BY DEF TypeInv, TypeOK, EvidenceInv, RowOK, RowBacked, Backed, StatusHasEvidence
  <1>2. IInv => TypeInv
    BY DEF IInv
  <1> QED BY <1>1, <1>2, EvidenceInit, NextEvidence, Invariant, PTL DEF Spec

-----------------------------------------------------------------------------
(* What a caller was told 201 for.                                         *)
LEMMA CreatedInit == Init => CreatedIsBacked
  BY DEF Init, CreatedIsBacked

(* Only PlacedEvent answers 201, with a row and a shipment behind it, and  *)
(* rows, shipments and events stay.                                        *)
LEMMA NextCreated ==
  ASSUME IInv, CreatedIsBacked, [Next]_vars
  PROVE  CreatedIsBacked'
  <1>0. TypeOK /\ shipped \subseteq placed /\ shipped' \in SUBSET Req
    BY NextType DEF IInv, TypeInv, TypeOK, PlacedInv, shipped
  <1>1. placed \subseteq placed' /\ shipped \subseteq shipped'
    <2>1. ASSUME NEW r \in Req, Manifest(r) PROVE placed' = placed /\ shipped \subseteq shipped'
      <3>1. PICK n \in 0..maxRetries + 1 : Book(r, n)
        BY <2>1, RetriesAssumption DEF Manifest
      <3>2. shipped' \in {shipped, shipped \cup {r}}
        BY <1>0, <3>1, BookShips DEF TypeOK
      <3> QED BY <2>1, <3>2 DEF Manifest
    <2> QED BY <2>1 DEF Next, vars, Serve, createOrder, trackOrder, cancelOrder, CreateFind, Insert, CreateSelect,
           CreateUpdate, PlacedEvent, FailSelect, FailUpdate, TrackFind, Fetch, AppendScan, TrackSelect, TrackUpdate,
           ReadEvents, CancelFind, CourierCancel, CancelSelect, CancelUpdate, CancelEvent, DbFault, Crash,
           CourierScan, UpdateRow, appendTrackingEvent
  <1>2. EventsGrow
    <2>1. ASSUME NEW r \in Req, createOrder(r) PROVE EventsGrow
      <3>1. CASE PlacedEvent(r)
        BY <1>0, <3>1, EventType, AppendEvidence DEF PlacedEvent
      <3>2. CASE UNCHANGED events
        BY <3>2, SameEvidence
      <3> QED BY <2>1, <3>1, <3>2 DEF createOrder, CreateFind, Insert, Manifest, CreateSelect, CreateUpdate,
                                      FailSelect, FailUpdate, UpdateRow
    <2>2. ASSUME NEW r \in Req, trackOrder(r) PROVE EventsGrow
      <3>1. CASE AppendScan(r)
        <4>1. target[r] \in Req /\ appended[r] + 1 \in Nat
          BY <1>0, <3>1 DEF AppendScan, IInv, TypeInv, TypeOK, TargetOK, InFlight, TrackPc
        <4> QED BY <1>0, <3>1, <4>1, EventType, AppendEvidence DEF AppendScan
      <3>2. CASE UNCHANGED events
        BY <3>2, SameEvidence
      <3> QED BY <2>2, <3>1, <3>2 DEF trackOrder, TrackFind, Fetch, TrackSelect, TrackUpdate, ReadEvents, UpdateRow
    <2>3. ASSUME NEW r \in Req, cancelOrder(r) PROVE EventsGrow
      <3>1. CASE CancelEvent(r)
        <4>1. target[r] \in Req
          BY <1>0, <3>1 DEF CancelEvent, IInv, TypeInv, TargetOK, InFlight, CancelPc
        <4> QED BY <1>0, <3>1, <4>1, EventType, AppendEvidence DEF CancelEvent
      <3>2. CASE UNCHANGED events
        BY <3>2, SameEvidence
      <3> QED BY <2>3, <3>1, <3>2 DEF cancelOrder, CancelFind, CourierCancel, CancelSelect, CancelUpdate, UpdateRow
    <2>4. ASSUME NEW r \in Req, DbFault(r) \/ Crash(r) \/ CourierScan(r) PROVE EventsGrow
      BY <2>4, SameEvidence DEF DbFault, Crash, CourierScan
    <2>5. CASE UNCHANGED vars
      BY <2>5, SameEvidence DEF vars
    <2> QED BY <2>1, <2>2, <2>3, <2>4, <2>5 DEF Next, Serve
  <1>3. ASSUME NEW r \in Req, answer'[r] = "201" PROVE r \in placed' /\ r \in shipped' /\ HasEvent(r, "CREATED")'
    <2>1. CASE answer[r] = "201"
      BY <1>1, <1>2, <2>1 DEF CreatedIsBacked, EventsGrow, OrderStatus
    <2>2. CASE answer[r] # "201"
      <3>1. PlacedEvent(r)
        <4> DEFINE Else(q) == \/ UNCHANGED answer
                              \/ \E a \in {"400", "404", "409", "200", "error"} : answer' = [answer EXCEPT ![q] = a]
        <4>1. \A q \in Req : Else(q) => answer'[r] # "201"
          BY <1>0, <2>2 DEF TypeOK
        <4>2. ASSUME NEW q \in Req, createOrder(q) PROVE PlacedEvent(q) \/ Else(q)
          BY <4>2 DEF createOrder, CreateFind, Insert, Manifest, CreateSelect, CreateUpdate, FailSelect, FailUpdate,
                      Goto, Finish
        <4>3. ASSUME NEW q \in Req, trackOrder(q) PROVE Else(q)
          BY <4>3 DEF trackOrder, TrackFind, Fetch, AppendScan, TrackSelect, TrackUpdate, ReadEvents, AfterReply,
                      Goto, Finish
        <4>4. ASSUME NEW q \in Req, cancelOrder(q) PROVE Else(q)
          BY <4>4 DEF cancelOrder, CancelFind, CourierCancel, CancelSelect, CancelUpdate, CancelEvent, Goto, Finish
        <4>5. ASSUME NEW q \in Req, DbFault(q) \/ Crash(q) \/ CourierScan(q) PROVE Else(q)
          BY <4>5 DEF DbFault, Crash, CourierScan, Goto, Finish
        <4>6. UNCHANGED vars => answer'[r] # "201"
          BY <2>2 DEF vars
        <4> HIDE DEF Else
        <4>7. PICK q \in Req : PlacedEvent(q)
          BY <1>3, <4>1, <4>2, <4>3, <4>4, <4>5, <4>6 DEF Next, Serve
        <4>8. q = r
          BY <1>0, <1>3, <2>2, <4>7 DEF PlacedEvent, Finish, TypeOK
        <4> QED BY <4>7, <4>8
      <3>2. r \in shipped
        BY <3>1 DEF PlacedEvent, IInv, ToldInv
      <3>3. HasEvent(r, "CREATED")'
        <4>1. ServiceEvent("CREATED").normalizedStatus = "CREATED"
          BY DEF ServiceEvent
        <4> QED BY <1>0, <3>1, <4>1, EventType, AppendEvidence DEF PlacedEvent
      <3> QED BY <1>0, <1>1, <3>2, <3>3
    <2> QED BY <2>1, <2>2
  <1> QED BY <1>3 DEF CreatedIsBacked

(* Whoever was told 201 has a row, a shipment and its first event.         *)
THEOREM CreatedBacked == Spec => []CreatedIsBacked
  BY CreatedInit, NextCreated, Invariant, PTL DEF Spec

-----------------------------------------------------------------------------
(* Failures.  The create of an order that the courier has not confirmed:   *)
(* not begun, under way or failed.                                         *)
Unbooked(o) == pc[o] \in {"idle", "insert", "manifest", "failSelect", "failUpdate"} \/ answer[o] = "error"

(* The row of such an order has no AWB, so a request beside its create     *)
(* never asks the courier: it only reads, or cancels.                      *)
Beside(q) == /\ pc[q] \in {"readEvents", "cancelSelect", "cancelUpdate", "cancelEvent"}
             /\ ~mem[q].awb
             /\ pc[q] = "cancelUpdate" => mem[q].status = "CANCELLED"

(* The create itself holds no AWB either, and is sure to write its FAILED: *)
(* the row cannot say so yet.                                              *)
Failing(o) == /\ pc[o] \in {"manifest", "failSelect", "failUpdate"} => ~mem[o].awb
              /\ pc[o] \in {"failSelect", "failUpdate"} => mem[o].status = "FAILED"
              /\ pc[o] = "failUpdate" => "status" \in dirty[o]

RowUnbooked(o) == /\ ~orders[o].awb
                  /\ pc[o] # "done" => orders[o].status \in {"CREATED", "CANCELLED"}
                  /\ pc[o] = "done" /\ o \in placed => orders[o].status \in {"FAILED", "CANCELLED"}

Recording(o) == /\ RowUnbooked(o) /\ Failing(o)
                /\ \A q \in Req \ {o} : pc[q] \in InFlight /\ target[q] = o => Beside(q)

RecordInv == faults = 0 => \A o \in Req : Unbooked(o) => Recording(o)

(* Nothing is placed in the beginning.                                     *)
LEMMA RecordInit == Init => RecordInv
  <1> SUFFICES ASSUME Init, NEW o \in Req PROVE Recording(o)
    BY DEF RecordInv
  <1>1. orders[o] = NewOrder /\ \A q \in Req : pc[q] = "idle"
    BY DEF Init
  <1>2. orders[o].status = "CREATED" /\ orders[o].awb = FALSE
    BY <1>1 DEF NewOrder
  <1> QED BY <1>1, <1>2 DEF Recording, RowUnbooked, Failing, InFlight, CreatePc, TrackPc, CancelPc

(* A step of another request keeps what is said of order o, if it leaves   *)
(* the row without an AWB and at worst cancels it.                         *)
LEMMA BesideStep ==
  ASSUME TypeOK, NEW r \in Req, NEW o \in Req, o # r, Recording(o), OthersStay(r),
         pc'[r] \in InFlight /\ target'[r] = o => Beside(r)',
         ~orders'[o].awb, orders'[o].status \in {orders[o].status, "CANCELLED"},
         o \in placed' => o \in placed
  PROVE  Recording(o)'
  <1>1. pc'[o] = pc[o] /\ mem'[o] = mem[o] /\ dirty'[o] = dirty[o]
    BY DEF OthersStay
  <1>2. RowUnbooked(o)'
    BY <1>1 DEF Recording, RowUnbooked
  <1>3. Failing(o)'
    BY <1>1 DEF Recording, Failing
  <1>4. ASSUME NEW q \in Req \ {o}, pc'[q] \in InFlight, target'[q] = o PROVE Beside(q)'
    <2>1. CASE q = r
      BY <1>4, <2>1
    <2>2. CASE q # r
      <3>1. pc'[q] = pc[q] /\ mem'[q] = mem[q] /\ target'[q] = target[q]
        BY <2>2 DEF OthersStay
      <3>2. Beside(q)
        BY <1>4, <3>1 DEF Recording
      <3> QED BY <3>1, <3>2 DEF Beside
    <2> QED BY <2>1, <2>2
  <1> QED BY <1>2, <1>3, <1>4 DEF Recording

(* A step of another request that does not touch the row.                  *)
LEMMA BesideQuiet ==
  ASSUME TypeOK, NEW r \in Req, NEW o \in Req, o # r, Recording(o), OthersStay(r),
         pc'[r] \in InFlight /\ target'[r] = o => Beside(r)',
         orders'[o] = orders[o], o \in placed' => o \in placed
  PROVE  Recording(o)'
  <1>1. ~orders'[o].awb
    BY DEF Recording, RowUnbooked
  <1> QED BY <1>1, BesideStep

(* What any step of a request leaves alone of the others.                  *)
LEMMA ServeStays ==
  ASSUME IInv, NEW r \in Req, Serve(r)
  PROVE  /\ OthersStay(r) /\ faults' = faults /\ placed' \subseteq placed \cup {r}
         /\ \A q \in Req \ {r} : answer'[q] = answer[q]
  <1>0. TypeOK
    BY DEF IInv, TypeInv
  <1>1. CASE createOrder(r)
    BY <1>0, <1>1 DEF createOrder, CreateFind, Insert, Manifest, CreateSelect, CreateUpdate, PlacedEvent, FailSelect,
       FailUpdate, SelectForSave, UpdateRow, appendTrackingEvent, RecordFailure, Goto, Finish, OthersStay, TypeOK,
       Opening, CreatePc
  <1>2. CASE trackOrder(r)
    BY <1>0, <1>2 DEF trackOrder, TrackFind, Fetch, AppendScan, TrackSelect, TrackUpdate, ReadEvents, AfterReply,
       LoadEntity, SelectForSave, UpdateRow, appendTrackingEvent, Goto, Finish, OthersStay, TypeOK, Opening, CreatePc
  <1>3. CASE cancelOrder(r)
    BY <1>0, <1>3 DEF cancelOrder, CancelFind, CourierCancel, CancelSelect, CancelUpdate, CancelEvent,
       LoadEntity, UpdateRow, appendTrackingEvent, Goto, Finish, OthersStay, TypeOK, Opening, CreatePc
  <1> QED BY <1>1, <1>2, <1>3 DEF Serve

(* A row outside the order a request works on is not written by it.        *)
LEMMA RowsApart ==
  ASSUME IInv, NEW r \in Req, Serve(r), NEW o \in Req, o # r, target[r] # o \/ pc[r] \in {"idle", "insert"}
  PROVE  orders'[o] = orders[o]
  <1>0. TypeOK
    BY DEF IInv, TypeInv
  <1>1. CASE UpdateRow(r) /\ pc[r] \in InFlight \ {"insert"}
    <2>1. target[r] # o
      BY <1>1 DEF InFlight, CreatePc, TrackPc, CancelPc
    <2> QED BY <1>0, <1>1, <2>1 DEF UpdateRow, TypeOK
  <1>2. CASE orders' = [orders EXCEPT ![r] = NewOrder]
    BY <1>0, <1>2 DEF TypeOK
  <1>3. CASE UNCHANGED orders
    BY <1>3
  <1> QED BY <1>1, <1>2, <1>3 DEF Serve, createOrder, trackOrder, cancelOrder, CreateFind, Insert, Manifest,
         CreateSelect, CreateUpdate, PlacedEvent, FailSelect, FailUpdate, TrackFind, Fetch, AppendScan, TrackSelect,
         TrackUpdate, ReadEvents, CancelFind, CourierCancel, CancelSelect, CancelUpdate, CancelEvent,
         appendTrackingEvent, InFlight, CreatePc, TrackPc, CancelPc

(* A step of the create itself, up to its error.                           *)
LEMMA OwnRecord ==
  ASSUME IInv, IInv', RecordInv, faults = 0, NEW r \in Req, createOrder(r), Unbooked(r)'
  PROVE  Recording(r)'
  <1>0. /\ TypeOK /\ OthersStay(r) /\ (pc[r] \in CreatePc => target[r] = r) /\ answer[r] \in Answers
        /\ pc[r] \in {"idle", "insert"} => r \notin placed
        /\ answer[r] = "error" => pc[r] = "done"
    BY ServeStays DEF Serve, IInv, TypeInv, TypeOK, PlacedInv, ToldInv, Answers
  <1>1. ASSUME Recording(r) PROVE \A q \in Req \ {r} : pc'[q] \in InFlight /\ target'[q] = r => Beside(q)'
    <2>1. ASSUME NEW q \in Req \ {r}, pc'[q] \in InFlight, target'[q] = r PROVE Beside(q)'
      <3>1. pc'[q] = pc[q] /\ mem'[q] = mem[q] /\ target'[q] = target[q]
        BY <1>0 DEF OthersStay
      <3>2. Beside(q)
        BY <1>1, <2>1, <3>1 DEF Recording
      <3> QED BY <3>1, <3>2 DEF Beside
    <2> QED BY <2>1
  <1>2. CASE CreateFind(r)
    <2>1. /\ pc[r] = "idle" /\ UNCHANGED <<orders, placed>>
          /\ \/ pc'[r] = "insert" /\ answer' = answer
             \/ pc'[r] = "done" /\ answer'[r] \in {"400", "409"}
      BY <1>0, <1>2 DEF CreateFind, Goto, Finish, TypeOK
    <2>2. pc'[r] = "insert"
      BY <1>0, <2>1 DEF Unbooked
    <2>3. Recording(r)
      BY <2>1 DEF RecordInv, Unbooked
    <2>4. RowUnbooked(r)' /\ Failing(r)'
      BY <2>1, <2>2, <2>3 DEF Recording, RowUnbooked, Failing
    <2> QED BY <1>1, <2>3, <2>4 DEF Recording
  <1>3. CASE Insert(r)
    <2>1. pc[r] = "insert"
      BY <1>3 DEF Insert
    <2>2. Recording(r) /\ r \notin placed
      BY <1>0, <2>1 DEF RecordInv, Unbooked
    <2>3. CASE ExtTaken(ext[r])
      <3>1. pc'[r] = "done" /\ UNCHANGED <<placed, orders>>
        BY <1>0, <1>3, <2>3 DEF Insert, Finish, TypeOK
      <3>2. RowUnbooked(r)' /\ Failing(r)'
        BY <2>2, <3>1 DEF Recording, RowUnbooked, Failing
      <3> QED BY <1>1, <2>2, <3>2 DEF Recording
    <2>4. CASE ~ExtTaken(ext[r])
      <3>1. pc'[r] = "manifest" /\ orders'[r] = NewOrder /\ mem'[r] = NewOrder
        BY <1>0, <1>3, <2>4 DEF Insert, Goto, TypeOK
      <3>2. NewOrder.status = "CREATED" /\ NewOrder.awb = FALSE
        BY DEF NewOrder
      <3>3. RowUnbooked(r)' /\ Failing(r)'
        BY <3>1, <3>2 DEF RowUnbooked, Failing
      <3> QED BY <1>1, <2>2, <3>3 DEF Recording
    <2> QED BY <2>3, <2>4
  <1>4. CASE Manifest(r)
    <2>1. /\ pc[r] = "manifest" /\ UNCHANGED <<orders, placed, answer>>
          /\ pc'[r] = "createSelect" \/ (pc'[r] = "failSelect" /\ RecordFailure(r))
      BY <1>0, <1>4 DEF Manifest, Goto, TypeOK
    <2>2. pc'[r] = "failSelect" /\ RecordFailure(r)
      BY <1>0, <2>1 DEF Unbooked
    <2>3. Recording(r)
      BY <2>1 DEF RecordInv, Unbooked
    <2>4. mem'[r].status = "FAILED" /\ mem'[r].awb = mem[r].awb
      BY <1>0, <2>2 DEF RecordFailure, TypeOK, Row
    <2>5. RowUnbooked(r)' /\ Failing(r)'
      BY <2>1, <2>2, <2>3, <2>4 DEF Recording, RowUnbooked, Failing
    <2> QED BY <1>1, <2>3, <2>5 DEF Recording
  <1>5. CASE CreateSelect(r) \/ CreateUpdate(r) \/ PlacedEvent(r)
    <2>1. /\ pc[r] # "done" /\ answer'[r] \in {answer[r], "201"}
          /\ pc'[r] \in {"createUpdate", "placedEvent", "done"}
      BY <1>0, <1>5 DEF CreateSelect, CreateUpdate, PlacedEvent, Goto, Finish, TypeOK
    <2> QED BY <1>0, <2>1 DEF Unbooked
  <1>6. CASE FailSelect(r)
    <2>1. /\ pc[r] = "failSelect" /\ pc'[r] = "failUpdate" /\ target[r] = r
          /\ UNCHANGED <<orders, mem, placed>> /\ SelectForSave(r)
      BY <1>0, <1>6 DEF FailSelect, Goto, TypeOK, CreatePc
    <2>2. Recording(r)
      BY <2>1 DEF RecordInv, Unbooked
    <2>3. mem[r].status = "FAILED" /\ orders[r].status \in {"CREATED", "CANCELLED"}
      BY <2>1, <2>2 DEF Recording, RowUnbooked, Failing
    <2>4. "status" \in dirty'[r]
      BY <1>0, <2>1, <2>3, SelectDirty
    <2>5. RowUnbooked(r)' /\ Failing(r)'
      BY <2>1, <2>2, <2>4 DEF Recording, RowUnbooked, Failing
    <2> QED BY <1>1, <2>2, <2>5 DEF Recording
  <1>7. CASE FailUpdate(r)
    <2>1. /\ pc[r] = "failUpdate" /\ pc'[r] = "done" /\ target[r] = r /\ UpdateRow(r)
          /\ UNCHANGED <<mem, placed>>
      BY <1>0, <1>7 DEF FailUpdate, UpdateRow, Finish, TypeOK, CreatePc
    <2>2. Recording(r)
      BY <2>1 DEF RecordInv, Unbooked
    <2>3. mem[r].status = "FAILED" /\ "status" \in dirty[r] /\ ~mem[r].awb /\ ~orders[r].awb
      BY <2>1, <2>2 DEF Recording, RowUnbooked, Failing
    <2>4. orders'[r] = Merge(orders[r], mem[r], dirty[r])
      BY <1>0, <2>1 DEF UpdateRow, TypeOK
    <2>5. orders'[r].status = "FAILED" /\ ~orders'[r].awb
      BY <2>3, <2>4 DEF Merge
    <2>6. RowUnbooked(r)' /\ Failing(r)'
      BY <2>1, <2>5 DEF RowUnbooked, Failing
    <2> QED BY <1>1, <2>2, <2>6 DEF Recording
  <1> QED BY <1>2, <1>3, <1>4, <1>5, <1>6, <1>7 DEF createOrder

(* A tracking request beside an unbooked order only reads.                 *)
LEMMA TrackBeside ==
  ASSUME IInv, IInv', NEW r \in Req, trackOrder(r), NEW o \in Req, o # r, Recording(o)
  PROVE  Recording(o)'
  <1>0. /\ TypeOK /\ OthersStay(r) /\ placed' \subseteq placed \cup {r}
        /\ pc[r] \in InFlight /\ target[r] = o => Beside(r)
    BY ServeStays DEF Serve, IInv, TypeInv, Recording
  <1>1. CASE TrackFind(r)
    <2>1. orders'[o] = orders[o] /\ pc[r] = "idle"
      BY <1>1 DEF TrackFind
    <2>2. ASSUME pc'[r] \in InFlight, target'[r] = o PROVE Beside(r)'
      <3>1. PICK q \in Req : LoadEntity(r, q) /\ Goto(r, IF orders[q].awb THEN "fetch" ELSE "readEvents")
        BY <1>0, <1>1, <2>2 DEF TrackFind, Finish, TypeOK, InFlight, CreatePc, TrackPc, CancelPc
      <3>2. q = o /\ mem'[r] = orders[o] /\ ~orders[o].awb
        BY <1>0, <2>2, <3>1 DEF LoadEntity, TypeOK, Recording, RowUnbooked
      <3>3. pc'[r] = "readEvents"
        BY <1>0, <3>1, <3>2 DEF Goto, TypeOK
      <3> QED BY <3>2, <3>3 DEF Beside
    <2> QED BY <1>0, <2>1, <2>2, BesideQuiet
  <1>2. CASE ReadEvents(r)
    <2>1. orders'[o] = orders[o] /\ pc'[r] = "done"
      BY <1>0, <1>2 DEF ReadEvents, Finish, TypeOK
    <2>2. pc'[r] \notin InFlight
      BY <2>1 DEF InFlight, CreatePc, TrackPc, CancelPc
    <2> QED BY <1>0, <2>1, <2>2, BesideQuiet
  <1>3. CASE Fetch(r) \/ AppendScan(r) \/ TrackSelect(r) \/ TrackUpdate(r)
    <2>1. pc[r] \in {"fetch", "append", "trackSelect", "trackUpdate"} /\ target' = target
      BY <1>3 DEF Fetch, AppendScan, TrackSelect, TrackUpdate
    <2>2. target[r] # o
      BY <1>0, <2>1 DEF Beside, InFlight, TrackPc
    <2>3. orders'[o] = orders[o]
      BY <2>2, RowsApart DEF Serve
    <2> QED BY <1>0, <2>1, <2>2, <2>3, BesideQuiet
  <1> QED BY <1>1, <1>2, <1>3 DEF trackOrder

(* A cancellation beside it writes CANCELLED, and no AWB.                  *)
LEMMA CancelBeside ==
  ASSUME IInv, IInv', NEW r \in Req, cancelOrder(r), NEW o \in Req, o # r, Recording(o)
  PROVE  Recording(o)'
  <1>0. /\ TypeOK /\ OthersStay(r) /\ placed' \subseteq placed \cup {r}
        /\ pc[r] \in InFlight /\ target[r] = o => Beside(r)
    BY ServeStays DEF Serve, IInv, TypeInv, Recording
  <1>1. CASE CancelFind(r)
    <2>1. orders'[o] = orders[o] /\ pc[r] = "idle"
      BY <1>1 DEF CancelFind
    <2>2. ASSUME pc'[r] \in InFlight, target'[r] = o PROVE Beside(r)'
      <3>1. PICK q \in Req : LoadEntity(r, q) /\ Goto(r, IF orders[q].awb THEN "courierCancel" ELSE "cancelSelect")
        BY <1>0, <1>1, <2>2 DEF CancelFind, Finish, TypeOK, InFlight, CreatePc, TrackPc, CancelPc
      <3>2. q = o /\ mem'[r] = orders[o] /\ ~orders[o].awb
        BY <1>0, <2>2, <3>1 DEF LoadEntity, TypeOK, Recording, RowUnbooked
      <3>3. pc'[r] = "cancelSelect"
        BY <1>0, <3>1, <3>2 DEF Goto, TypeOK
      <3> QED BY <3>2, <3>3 DEF Beside
    <2> QED BY <1>0, <2>1, <2>2, BesideQuiet
  <1>2. CASE CourierCancel(r)
    <2>1. pc[r] = "courierCancel" /\ target' = target
      BY <1>2 DEF CourierCancel
    <2>2. target[r] # o
      BY <1>0, <2>1 DEF Beside, InFlight, CancelPc
    <2>3. orders'[o] = orders[o]
      BY <2>2, RowsApart DEF Serve
    <2> QED BY <1>0, <2>1, <2>2, <2>3, BesideQuiet
  <1>3. CASE CancelSelect(r)
    <2>1. /\ pc[r] = "cancelSelect" /\ pc'[r] = "cancelUpdate" /\ UNCHANGED <<orders, target>>
          /\ mem' = [mem EXCEPT ![r].status = "CANCELLED", ![r].cancelledBy = r]
      BY <1>0, <1>3 DEF CancelSelect, Goto, TypeOK
    <2>2. mem'[r].status = "CANCELLED" /\ mem'[r].awb = mem[r].awb
      BY <1>0, <2>1 DEF TypeOK, Row
    <2>3. target'[r] = o => Beside(r)'
      BY <1>0, <2>1, <2>2 DEF Beside, InFlight, CancelPc
    <2> QED BY <1>0, <2>1, <2>3, BesideQuiet
  <1>4. CASE CancelUpdate(r)
    <2>1. /\ pc[r] = "cancelUpdate" /\ pc'[r] = "cancelEvent" /\ UpdateRow(r) /\ UNCHANGED <<target, mem>>
      BY <1>0, <1>4 DEF CancelUpdate, Goto, TypeOK
    <2>2. target[r] = o => Beside(r) /\ Beside(r)'
      BY <1>0, <2>1 DEF Beside, InFlight, CancelPc
    <2>3. CASE target[r] = o
      <3>1. orders'[o] = Merge(orders[o], mem[r], dirty[r])
        BY <1>0, <2>1, <2>3 DEF UpdateRow, TypeOK
      <3>2. ~orders[o].awb /\ ~mem[r].awb /\ mem[r].status = "CANCELLED"
        BY <2>1, <2>2, <2>3 DEF Beside, Recording, RowUnbooked
      <3>3. ~orders'[o].awb
        BY <3>1, <3>2 DEF Merge
      <3>4. orders'[o].status \in {orders[o].status, "CANCELLED"}
        BY <3>1, <3>2 DEF Merge
      <3> QED BY <1>0, <2>2, <2>3, <3>3, <3>4, BesideStep
    <2>4. CASE target[r] # o
      <3>1. orders'[o] = orders[o]
        BY <2>4, RowsApart DEF Serve
      <3> QED BY <1>0, <2>1, <2>4, <3>1, BesideQuiet
    <2> QED BY <2>3, <2>4
  <1>5. CASE CancelEvent(r)
    <2>1. orders'[o] = orders[o] /\ pc'[r] = "done"
      BY <1>0, <1>5 DEF CancelEvent, Finish, appendTrackingEvent, TypeOK
    <2>2. pc'[r] \notin InFlight
      BY <2>1 DEF InFlight, CreatePc, TrackPc, CancelPc
    <2> QED BY <1>0, <2>1, <2>2, BesideQuiet
  <1> QED BY <1>1, <1>2, <1>3, <1>4, <1>5 DEF cancelOrder

(* The create of another order does not come near.                         *)
LEMMA CreateBeside ==
  ASSUME IInv, IInv', NEW r \in Req, createOrder(r), NEW o \in Req, o # r, Recording(o)
  PROVE  Recording(o)'
  <1>1. TypeOK /\ OthersStay(r) /\ placed' \subseteq placed \cup {r} /\ pc[r] \in CreatePc \cup {"idle"}
    BY ServeStays DEF Serve, IInv, TypeInv, createOrder, CreateFind, Insert, Manifest, CreateSelect, CreateUpdate,
       PlacedEvent, FailSelect, FailUpdate, CreatePc
  <1>2. target[r] # o \/ pc[r] \in {"idle", "insert"}
    BY <1>1 DEF IInv, PlacedInv
  <1>3. orders'[o] = orders[o]
    BY <1>2, RowsApart DEF Serve
  <1>4. pc'[r] \in CreatePc \cup {"done"}
    BY <1>1 DEF createOrder, CreateFind, Insert, Manifest, CreateSelect, CreateUpdate, PlacedEvent, FailSelect,
       FailUpdate, Goto, Finish, CreatePc, TypeOK
  <1>5. pc'[r] \in InFlight => target'[r] # o
    BY <1>4 DEF IInv, PlacedInv, InFlight, CreatePc, TrackPc, CancelPc
  <1> QED BY <1>1, <1>3, <1>5, BesideQuiet

(* A step of the service keeps the invariant.                              *)
LEMMA ServeRecord ==
  ASSUME IInv, IInv', RecordInv, faults = 0, NEW r \in Req, Serve(r), NEW o \in Req, Unbooked(o)'
  PROVE  Recording(o)'
  <1>0. /\ OthersStay(r) /\ (o # r => answer'[o] = answer[o]) /\ TypeOK
        /\ answer[r] = "error" => pc[r] = "done"
    BY ServeStays DEF IInv, TypeInv, TypeOK, ToldInv, Answers
  <1>1. CASE o = r
    <2>1. CASE createOrder(r)
      BY <1>1, <2>1, OwnRecord
    <2>2. CASE trackOrder(r)
      <3>1. /\ pc[r] # "done" /\ pc'[r] \in TrackPc \cup {"done"}
            /\ answer'[r] \in {answer[r], "404", "200"}
        BY <1>0, <2>2 DEF trackOrder, TrackFind, Fetch, AppendScan, TrackSelect, TrackUpdate, ReadEvents, AfterReply,
           Goto, Finish, TrackPc, TypeOK
      <3> QED BY <1>0, <1>1, <3>1 DEF Unbooked, TrackPc
    <2>3. CASE cancelOrder(r)
      <3>1. /\ pc[r] # "done" /\ pc'[r] \in CancelPc \cup {"done"}
            /\ answer'[r] \in {answer[r], "404", "400", "200"}
        BY <1>0, <2>3 DEF cancelOrder, CancelFind, CourierCancel, CancelSelect, CancelUpdate, CancelEvent,
           Goto, Finish, CancelPc, TypeOK
      <3> QED BY <1>0, <1>1, <3>1 DEF Unbooked, CancelPc
    <2> QED BY <2>1, <2>2, <2>3 DEF Serve
  <1>2. CASE o # r
    <2>1. Unbooked(o)
      BY <1>0, <1>2 DEF Unbooked, OthersStay
    <2>2. Recording(o)
      BY <2>1 DEF RecordInv
    <2> QED BY <1>2, <2>2, CreateBeside, TrackBeside, CancelBeside DEF Serve
  <1> QED BY <1>1, <1>2

(* A crash and a scan keep it; a fault ends what it promises.              *)
LEMMA EnvironmentRecord ==
  ASSUME IInv, IInv', RecordInv, faults = 0, NEW r \in Req, Crash(r) \/ CourierScan(r), NEW o \in Req, Unbooked(o)'
  PROVE  Recording(o)'
  <1>1. CASE CourierScan(r)
    BY <1>1 DEF CourierScan, RecordInv, Unbooked, Recording, RowUnbooked, Failing, Beside
  <1>2. CASE Crash(r)
    <2>0. /\ TypeOK /\ UNCHANGED <<orders, placed, mem, target, dirty, answer>> /\ pc[r] \in InFlight
          /\ pc'[r] = "crashed" /\ \A q \in Req \ {r} : pc'[q] = pc[q]
      BY <1>2 DEF Crash, IInv, TypeInv, TypeOK
    <2>1. o # r
      <3>1. pc[r] # "done"
        BY <2>0 DEF InFlight, CreatePc, TrackPc, CancelPc
      <3>2. answer[r] # "error"
        BY <3>1 DEF IInv, ToldInv
      <3> QED BY <2>0, <3>2 DEF Unbooked
    <2>2. Recording(o)
      BY <2>0, <2>1 DEF RecordInv, Unbooked
    <2>3. OthersStay(r) /\ pc'[r] \notin InFlight
      BY <2>0 DEF OthersStay, Opening, InFlight, CreatePc, TrackPc, CancelPc
    <2> QED BY <2>0, <2>1, <2>2, <2>3, BesideQuiet
  <1> QED BY <1>1, <1>2

(* Every step keeps the invariant.                                         *)
LEMMA NextRecord == IInv /\ IInv' /\ RecordInv /\ [Next]_vars => RecordInv'
  <1> SUFFICES ASSUME IInv, IInv', RecordInv, [Next]_vars, faults' = 0, NEW o \in Req, Unbooked(o)'
               PROVE  Recording(o)'
    BY DEF RecordInv
  <1>1. CASE UNCHANGED vars
    BY <1>1 DEF vars, RecordInv, Unbooked, Recording, RowUnbooked, Failing, Beside
  <1>2. ASSUME NEW r \in Req, Serve(r) PROVE Recording(o)'
    <2>1. faults = 0
      BY <1>2, ServeStays
    <2> QED BY <1>2, <2>1, ServeRecord
  <1>3. ASSUME NEW r \in Req, DbFault(r) PROVE FALSE
    <2>1. faults \in Nat /\ faults' = faults + 1
      BY <1>3 DEF DbFault, IInv, TypeInv, TypeOK
    <2> QED BY <2>1
  <1>4. ASSUME NEW r \in Req, Crash(r) \/ CourierScan(r) PROVE Recording(o)'
    <2>1. faults = 0
      BY <1>4 DEF Crash, CourierScan
    <2> QED BY <1>4, <2>1, EnvironmentRecord
  <1> QED BY <1>1, <1>2, <1>3, <1>4 DEF Next

(* A create that told its caller of an error left its row FAILED, or a     *)
(* cancel has closed it, as long as the database answers.                  *)
THEOREM FailureRecorded == Spec => []FailureIsRecorded
  <1>1. IInv /\ RecordInv => FailureIsRecorded
    <2> SUFFICES ASSUME IInv, RecordInv, NEW r \in Req, r \in placed, answer[r] = "error", faults = 0
                 PROVE  orders[r].status \in {"FAILED", "CANCELLED"}
      BY DEF FailureIsRecorded
    <2>1. RowUnbooked(r) /\ pc[r] = "done"
      BY DEF RecordInv, Unbooked, Recording, IInv, ToldInv
    <2> QED BY <2>1 DEF RowUnbooked
  <1> QED BY <1>1, RecordInit, NextRecord, Invariant, PTL DEF Spec


-----------------------------------------------------------------------------
(* Traces of shipments.  awaits at which a cancellation has saved the row  *)
Past == {"cancelEvent", "done", "crashed"}

(* A request in flight that has its entity cancelled is about to save just *)
(* that; one that follows a parcel has loaded an AWB.                      *)
EntityOK(q) ==
  /\ q \in stale => pc[q] # "idle"
  /\ mem[q].cancelledBy = q => pc[q] \in Past \cup {"cancelUpdate"}
  /\ pc[q] = "cancelUpdate" => mem[q].cancelledBy = q /\ "cancelledBy" \in dirty[q]
  /\ pc[q] \in {"fetch", "append", "trackSelect", "trackUpdate"} => mem[q].awb

(* Nobody is seen as the canceller of an order before saving it.           *)
CancellerOK(q) ==
  (\E o \in Req : orders[o].cancelledBy = q) \/ (\E r \in Req \ {q} : mem[r].cancelledBy = q) => pc[q] \in Past

\* awaits at which the courier may have booked, and the AWB is not saved
Unsaved == {"manifest", "createSelect", "createUpdate"}

(* Until then nobody has the AWB but the create, which is sure to save it. *)
UnsavedOK(o) ==
  pc[o] \in Unsaved =>
    /\ ~orders[o].awb
    /\ \A q \in Req \ {o} : pc[q] \in InFlight /\ target[q] = o => ~mem[q].awb
    /\ pc[o] # "manifest" => mem[o].awb
    /\ pc[o] = "createUpdate" => "awb" \in dirty[o]

LateCancel(o) == \E c \in stale \ {o} : target[c] = o /\ pc[c] \in Past

TwoStale(o) == \E a, b \in stale \ {o} : a # b /\ target[a] = o /\ target[b] = o

(* The AWB is taken by a stale cancellation only, which leaves its caller  *)
(* in its place; the next stale save may take that too.                    *)
Traced(o) == orders[o].awb \/ (Cancelled(o) /\ LateCancel(o)) \/ TwoStale(o)

TraceOK(o) == pc[o] = "placedEvent" \/ answer[o] = "201" => Traced(o)

FailedOK(o) == faults = 0 /\ o \in placed /\ answer[o] = "error" => orders[o].failureReason \/ Cancelled(o)

AccountInv == \A o \in Req : EntityOK(o) /\ CancellerOK(o) /\ UnsavedOK(o) /\ TraceOK(o) /\ FailedOK(o)

(* Nothing is cancelled, booked or answered in the beginning.              *)
LEMMA AccountInit == Init => AccountInv
  <1> SUFFICES ASSUME Init, NEW o \in Req
               PROVE  EntityOK(o) /\ CancellerOK(o) /\ UnsavedOK(o) /\ TraceOK(o) /\ FailedOK(o)
    BY DEF AccountInv
  <1>1. \A q \in Req : orders[q].cancelledBy = None /\ mem[q].cancelledBy = None /\ pc[q] = "idle"
    BY DEF Init, NewOrder
  <1>2. o # None /\ stale = {} /\ placed = {} /\ answer[o] = "none"
    BY NoneAssumption DEF Init
  <1> QED BY <1>1, <1>2 DEF EntityOK, CancellerOK, UnsavedOK, Unsaved, TraceOK, FailedOK

\* a step of a request, of the service or of what disturbs it
Step(r) == Serve(r) \/ DbFault(r) \/ Crash(r)

(* What such a step may do to the others and to who is stale.              *)
LEMMA StepStays ==
  ASSUME IInv, NEW r \in Req, Step(r)
  PROVE  /\ \A q \in Req \ {r} : /\ pc'[q] = pc[q] /\ mem'[q] = mem[q] /\ answer'[q] = answer[q]
                                 /\ target'[q] = target[q] /\ dirty'[q] = dirty[q]
         /\ pc[r] \in InFlight \cup {"idle"} /\ pc'[r] # "idle" /\ faults' >= faults
         /\ pc[r] \in Past \cup {"cancelUpdate"} => pc'[r] \in Past
         /\ pc[r] # "idle" => target'[r] = target[r]
         /\ \A q \in stale : q \in stale' \/ (q = r /\ pc[r] = "idle")
         /\ \A q \in stale' : q \in stale \/ pc[q] \in InFlight
         /\ placed' \subseteq placed \cup {r}
  <1>0. TypeOK
    BY DEF IInv, TypeInv
  <1>1. CASE createOrder(r)
    BY <1>0, <1>1 DEF createOrder, CreateFind, Insert, Manifest, CreateSelect, CreateUpdate, PlacedEvent, FailSelect,
       FailUpdate, SelectForSave, UpdateRow, appendTrackingEvent, RecordFailure, Goto, Finish, TypeOK,
       InFlight, CreatePc, Past
  <1>2. CASE trackOrder(r)
    BY <1>0, <1>2 DEF trackOrder, TrackFind, Fetch, AppendScan, TrackSelect, TrackUpdate, ReadEvents, AfterReply,
       LoadEntity, SelectForSave, UpdateRow, appendTrackingEvent, Goto, Finish, TypeOK, InFlight, TrackPc, Past
  <1>3. CASE cancelOrder(r)
    BY <1>0, <1>3 DEF cancelOrder, CancelFind, CourierCancel, CancelSelect, CancelUpdate, CancelEvent,
       LoadEntity, UpdateRow, appendTrackingEvent, Goto, Finish, TypeOK, InFlight, CancelPc, Past
  <1>4. CASE DbFault(r)
    BY <1>0, <1>4 DEF DbFault, RecordFailure, Goto, Finish, TypeOK, InFlight, CreatePc, TrackPc, CancelPc, Past
  <1>5. CASE Crash(r)
    BY <1>0, <1>5 DEF Crash, TypeOK, InFlight, CreatePc, TrackPc, CancelPc, Past
  <1> QED BY <1>1, <1>2, <1>3, <1>4, <1>5 DEF Step, Serve

(* Where the entity of a request gets its canceller and its AWB from.      *)
LEMMA EntitySources ==
  ASSUME IInv, NEW r \in Req, Step(r)
  PROVE  \/ pc[r] = "idle" /\ target'[r] \in Req /\ mem'[r] = orders[target'[r]]
         \/ pc'[r] \in CreatePc \cup {"done"} /\ mem'[r].cancelledBy \in {mem[r].cancelledBy, None}
         \/ mem'[r].cancelledBy = mem[r].cancelledBy /\ mem'[r].awb = mem[r].awb /\ pc'[r] # "cancelUpdate"
            /\ pc[r] # "idle"
         \/ /\ CancelSelect(r) /\ pc'[r] = "cancelUpdate"
            /\ mem'[r].cancelledBy = r /\ mem'[r].awb = mem[r].awb
  <1>0. TypeOK /\ mem[r] \in Row
    BY DEF IInv, TypeInv, TypeOK
  <1>1. CASE UNCHANGED mem
    <2>1. pc'[r] # "cancelUpdate" \/ CancelSelect(r)
      BY <1>0, <1>1 DEF Step, Serve, createOrder, trackOrder, cancelOrder, CreateFind, Insert, Manifest, CreateSelect,
         CreateUpdate, PlacedEvent, FailSelect, FailUpdate, TrackFind, Fetch, AppendScan, TrackSelect, TrackUpdate,
         ReadEvents, AfterReply, CancelFind, CourierCancel, CancelUpdate, CancelEvent, DbFault, Crash, Goto, Finish, TypeOK
    <2>2. pc[r] = "idle" => pc'[r] \in CreatePc \cup {"done"} \/ (target'[r] \in Req /\ mem'[r] = orders[target'[r]])
      BY <1>0 DEF Step, Serve, createOrder, trackOrder, cancelOrder, CreateFind, Insert, Manifest, CreateSelect,
         CreateUpdate, PlacedEvent, FailSelect, FailUpdate, TrackFind, Fetch, AppendScan, TrackSelect, TrackUpdate,
         ReadEvents, CancelFind, CourierCancel, CancelSelect, CancelUpdate, CancelEvent, DbFault, Crash, Goto, Finish,
         LoadEntity, TypeOK, InFlight, CreatePc, TrackPc, CancelPc
    <2>3. CASE CancelSelect(r)
      BY <1>0, <2>3 DEF CancelSelect, Goto, TypeOK, Row
    <2> QED BY <1>1, <2>1, <2>2, <2>3
  <1>2. CASE pc'[r] \in CreatePc /\ (mem' = [mem EXCEPT ![r] = NewOrder]
                 \/ RecordFailure(r) \/ mem' = [mem EXCEPT ![r].awb = TRUE, ![r].status = "CREATED"])
    <2>1. RecordFailure(r) => mem'[r].cancelledBy = mem[r].cancelledBy
      BY <1>0 DEF RecordFailure, TypeOK, Row
    <2>2. mem' = [mem EXCEPT ![r].awb = TRUE, ![r].status = "CREATED"] => mem'[r].cancelledBy = mem[r].cancelledBy
      BY <1>0 DEF TypeOK, Row
    <2>3. mem' = [mem EXCEPT ![r] = NewOrder] => mem'[r].cancelledBy = None
      BY <1>0 DEF NewOrder, TypeOK
    <2> QED BY <1>2, <2>1, <2>2, <2>3
  <1>3. CASE pc[r] = "idle" /\ \E o \in Req : LoadEntity(r, o)
    BY <1>0, <1>3 DEF LoadEntity, TypeOK
  <1>4. CASE pc'[r] = "trackSelect" /\ pc[r] \in TrackPc /\ \E s : mem' = [mem EXCEPT ![r].status = s]
    BY <1>0, <1>4 DEF TypeOK, Row, TrackPc
  <1>5. CASE CancelSelect(r)
    BY <1>0, <1>5 DEF CancelSelect, Goto, TypeOK, Row
  <1>6. ASSUME createOrder(r) PROVE UNCHANGED mem \/ (pc'[r] \in CreatePc /\ (mem' = [mem EXCEPT ![r] = NewOrder]
                 \/ RecordFailure(r) \/ mem' = [mem EXCEPT ![r].awb = TRUE, ![r].status = "CREATED"]))
    BY <1>0, <1>6 DEF createOrder, CreateFind, Insert, Manifest, CreateSelect, CreateUpdate, PlacedEvent, FailSelect,
       FailUpdate, Goto, Finish, CreatePc, TypeOK
  <1>7. ASSUME trackOrder(r)
        PROVE  \/ UNCHANGED mem \/ (pc[r] = "idle" /\ \E o \in Req : LoadEntity(r, o))
               \/ pc'[r] = "trackSelect" /\ pc[r] \in TrackPc /\ \E s : mem' = [mem EXCEPT ![r].status = s]
    BY <1>0, <1>7 DEF trackOrder, TrackFind, Fetch, AppendScan, TrackSelect, TrackUpdate, ReadEvents, AfterReply,
       Goto, Finish, TrackPc, TypeOK
  <1>8. ASSUME cancelOrder(r)
        PROVE  UNCHANGED mem \/ (pc[r] = "idle" /\ \E o \in Req : LoadEntity(r, o)) \/ CancelSelect(r)
    BY <1>0, <1>8 DEF cancelOrder, CancelFind, CourierCancel, CancelUpdate, CancelEvent, Goto, Finish, TypeOK
  <1>9. ASSUME DbFault(r) \/ Crash(r) PROVE UNCHANGED mem \/ (pc'[r] \in CreatePc /\ RecordFailure(r))
    BY <1>0, <1>9 DEF DbFault, Crash, Goto, Finish, CreatePc, TypeOK
  <1> QED BY <1>1, <1>2, <1>3, <1>4, <1>5, <1>6, <1>7, <1>8, <1>9 DEF Step, Serve


(* A row is left alone, inserted by its own request, or saved by one that  *)
(* works on it.                                                            *)
LEMMA RowSources ==
  ASSUME IInv, NEW r \in Req, Step(r), NEW o \in Req
  PROVE  \/ orders'[o] = orders[o]
         \/ Insert(r) /\ o = r /\ orders'[o] = NewOrder
         \/ /\ target[r] = o /\ pc[r] \in Saving /\ UpdateRow(r) /\ UNCHANGED <<mem, target>>
            /\ orders'[o] = Merge(orders[o], mem[r], dirty[r])
            /\ pc[r] \in {"createUpdate", "failUpdate"} => r = o
            /\ pc[r] = "cancelUpdate" => pc'[r] = "cancelEvent"
            /\ pc[r] = "createUpdate" => pc'[r] = "placedEvent"
            /\ pc[r] = "failUpdate" => pc'[r] = "done"
  <1>0. TypeOK
    BY DEF IInv, TypeInv
  <1>1. CASE Insert(r)
    BY <1>0, <1>1 DEF Insert, TypeOK
  <1>2. CASE UpdateRow(r) /\ (CreateUpdate(r) \/ FailUpdate(r) \/ TrackUpdate(r) \/ CancelUpdate(r))
    <2>1. /\ pc[r] \in Saving /\ UNCHANGED <<mem, target>>
          /\ pc[r] = "cancelUpdate" => pc'[r] = "cancelEvent"
          /\ pc[r] = "createUpdate" => pc'[r] = "placedEvent"
          /\ pc[r] = "failUpdate" => pc'[r] = "done"
      BY <1>0, <1>2 DEF CreateUpdate, FailUpdate, TrackUpdate, CancelUpdate, Goto, Finish, Saving, TypeOK
    <2>2. pc[r] \in {"createUpdate", "failUpdate"} => target[r] = r
      BY DEF IInv, PlacedInv, CreatePc
    <2>3. orders' = [orders EXCEPT ![target[r]] = Merge(@, mem[r], dirty[r])]
      BY <1>2 DEF UpdateRow
    <2> QED BY <1>0, <1>2, <2>1, <2>2, <2>3 DEF TypeOK
  <1>3. CASE UNCHANGED orders
    BY <1>3
  <1> QED BY <1>1, <1>2, <1>3 DEF Step, Serve, createOrder, trackOrder, cancelOrder, CreateFind, Manifest, CreateSelect,
       CreateUpdate, PlacedEvent, FailSelect, FailUpdate, TrackFind, Fetch, AppendScan, TrackSelect, TrackUpdate,
       ReadEvents, CancelFind, CourierCancel, CancelSelect, CancelUpdate, CancelEvent, DbFault, Crash,
       appendTrackingEvent

(* Cancellers are past their saves, after any step.                        *)
LEMMA CancellerStep ==
  ASSUME IInv, AccountInv, NEW r \in Req, Step(r), NEW q \in Req
  PROVE  CancellerOK(q)'
  <1>0. CancellerOK(q) /\ EntityOK(q) /\ q # None
    BY NoneAssumption DEF AccountInv
  <1>1. pc[q] \in Past => pc'[q] \in Past
    BY StepStays
  <1>2. ASSUME NEW o \in Req, orders'[o].cancelledBy = q PROVE pc'[q] \in Past
    <2>1. CASE orders'[o].cancelledBy = orders[o].cancelledBy
      BY <1>0, <1>1, <1>2, <2>1 DEF CancellerOK
    <2>2. CASE orders'[o].cancelledBy = mem[r].cancelledBy
      <3>1. CASE q = r
        <4>1. pc[q] \in Past \cup {"cancelUpdate"}
          BY <1>0, <1>2, <2>2, <3>1 DEF EntityOK
        <4> QED BY <3>1, <4>1, StepStays
      <3>2. CASE q # r
        BY <1>0, <1>1, <1>2, <2>2, <3>2 DEF CancellerOK
      <3> QED BY <3>1, <3>2
    <2>3. orders'[o].cancelledBy \in {orders[o].cancelledBy, mem[r].cancelledBy, None}
      <3>1. NewOrder.cancelledBy = None
        BY DEF NewOrder
      <3>2. Merge(orders[o], mem[r], dirty[r]).cancelledBy \in {orders[o].cancelledBy, mem[r].cancelledBy}
        BY DEF Merge
      <3> QED BY <3>1, <3>2, RowSources
    <2> QED BY <1>0, <1>2, <2>1, <2>2, <2>3
  <1>3. ASSUME NEW s \in Req \ {q}, mem'[s].cancelledBy = q PROVE pc'[q] \in Past
    <2>1. CASE mem'[s].cancelledBy = mem[s].cancelledBy
      BY <1>0, <1>1, <1>3, <2>1 DEF CancellerOK
    <2>2. CASE s = r /\ target'[r] \in Req /\ mem'[r] = orders[target'[r]]
      BY <1>0, <1>1, <1>3, <2>2 DEF CancellerOK
    <2>3. \/ mem'[s].cancelledBy \in {mem[s].cancelledBy, None, s}
          \/ s = r /\ target'[r] \in Req /\ mem'[r] = orders[target'[r]]
      BY StepStays, EntitySources
    <2> QED BY <1>0, <1>3, <2>1, <2>2, <2>3
  <1> QED BY <1>2, <1>3 DEF CancellerOK

(* Entities stay as they should be.                                        *)
LEMMA EntityStep ==
  ASSUME IInv, AccountInv, NEW r \in Req, Step(r), NEW q \in Req
  PROVE  EntityOK(q)'
  <1>0. /\ EntityOK(q) /\ CancellerOK(q) /\ TypeOK /\ q # None
        /\ pc[q] = "idle" => pc[q] \notin InFlight
        /\ pc[q] \in Past \cup {"cancelUpdate"} => pc[q] # "idle"
    BY NoneAssumption DEF AccountInv, IInv, TypeInv, InFlight, CreatePc, TrackPc, CancelPc, Past
  <1>1. CASE q # r
    <2>1. q \in stale' => pc'[q] # "idle"
      BY <1>0, <1>1, StepStays DEF EntityOK
    <2> QED BY <1>0, <1>1, <2>1, StepStays DEF EntityOK
  <1>2. CASE q = r
    <2>1. pc'[r] # "idle"
      BY StepStays
    <2>2. mem'[r].cancelledBy = r => pc'[r] \in Past \cup {"cancelUpdate"}
      <3>1. CASE mem'[r].cancelledBy = mem[r].cancelledBy
        BY <1>0, <1>2, <3>1, StepStays DEF EntityOK
      <3>2. CASE target'[r] \in Req /\ mem'[r] = orders[target'[r]]
        BY <1>0, <1>2, <3>2, StepStays DEF CancellerOK
      <3> QED BY <1>0, <1>2, <3>1, <3>2, EntitySources
    <2>3. pc'[r] = "cancelUpdate" => mem'[r].cancelledBy = r /\ "cancelledBy" \in dirty'[r]
      <3>1. ASSUME pc'[r] = "cancelUpdate" PROVE CancelSelect(r)
        BY <1>0, <3>1 DEF Step, Serve, createOrder, trackOrder, cancelOrder, CreateFind, Insert, Manifest, CreateSelect,
         CreateUpdate, PlacedEvent, FailSelect, FailUpdate, TrackFind, Fetch, AppendScan, TrackSelect, TrackUpdate,
         ReadEvents, AfterReply, CancelFind, CourierCancel, CancelUpdate, CancelEvent, DbFault, Crash, Goto, Finish, TypeOK
      <3>2. ASSUME CancelSelect(r) PROVE mem'[r].cancelledBy = r /\ "cancelledBy" \in dirty'[r]
        <4>1. /\ mem'[r].cancelledBy = r /\ dirty'[r] = Differ(mem'[r], orders[target[r]])
              /\ pc[r] = "cancelSelect" /\ target[r] \in Req
          BY <1>0, <3>2 DEF CancelSelect, TypeOK, Row, IInv, TypeInv, TargetOK, InFlight, CancelPc
        <4>2. orders[target[r]].cancelledBy # r
          BY <1>0, <1>2, <4>1 DEF CancellerOK, Past
        <4>3. "cancelledBy" \in Column
          BY DEF Column
        <4> QED BY <4>1, <4>2, <4>3 DEF Differ
      <3> QED BY <3>1, <3>2
    <2>4. pc'[r] \in {"fetch", "append", "trackSelect", "trackUpdate"} => mem'[r].awb
      <3>1. CASE TrackFind(r)
        <4>1. pc'[r] = "fetch" => \E o \in Req : LoadEntity(r, o) /\ orders[o].awb
          BY <1>0, <3>1 DEF TrackFind, Goto, Finish, TypeOK
        <4>2. pc'[r] \in {"fetch", "readEvents", "done"}
          BY <1>0, <3>1 DEF TrackFind, Goto, Finish, TypeOK
        <4> QED BY <1>0, <4>1, <4>2 DEF LoadEntity, TypeOK
      <3>2. CASE Fetch(r) \/ AppendScan(r) \/ TrackSelect(r)
        <4>1. pc[r] \in {"fetch", "append", "trackSelect"}
          BY <3>2 DEF Fetch, AppendScan, TrackSelect
        <4>2. mem'[r].awb = mem[r].awb
          <5>1. pc[r] # "idle" /\ pc'[r] \notin CreatePc \cup {"done", "cancelUpdate"}
            BY <1>0, <3>2 DEF Fetch, AppendScan, TrackSelect, AfterReply, Goto, CreatePc, TypeOK
          <5> QED BY <5>1, EntitySources
        <4> QED BY <1>0, <1>2, <4>1, <4>2 DEF EntityOK
      <3>3. \/ TrackFind(r) \/ Fetch(r) \/ AppendScan(r) \/ TrackSelect(r)
            \/ pc'[r] \notin {"fetch", "append", "trackSelect", "trackUpdate"}
        BY <1>0 DEF Step, Serve, createOrder, trackOrder, cancelOrder, CreateFind, Insert, Manifest, CreateSelect,
         CreateUpdate, PlacedEvent, FailSelect, FailUpdate, TrackUpdate,
         ReadEvents, CancelFind, CourierCancel, CancelSelect, CancelUpdate, CancelEvent, DbFault, Crash, Goto, Finish, TypeOK
      <3> QED BY <3>1, <3>2, <3>3
    <2> QED BY <1>2, <2>1, <2>2, <2>3, <2>4 DEF EntityOK
  <1> QED BY <1>1, <1>2


(* The AWB stays with the create until the create saves it: its own steps. *)
LEMMA OwnUnsaved ==
  ASSUME IInv, IInv', AccountInv, NEW r \in Req, Step(r)
  PROVE  UnsavedOK(r)'
  <1>0. TypeOK /\ UnsavedOK(r) /\ (pc[r] \in CreatePc => target[r] = r) /\ mem[r] \in Row /\ pc[r] \in Pc
    BY DEF AccountInv, IInv, TypeInv, TypeOK, PlacedInv
  <1>1. ASSUME pc[r] \in Unsaved
        PROVE  \A q \in Req \ {r} : pc'[q] \in InFlight /\ target'[q] = r => ~mem'[q].awb
    BY <1>0, <1>1, StepStays DEF UnsavedOK
  <1>2. CASE Insert(r) /\ pc'[r] = "manifest"
    <2>1. orders'[r] = NewOrder /\ pc[r] = "insert" /\ target' = target
      BY <1>0, <1>2 DEF Insert, Goto, Finish, TypeOK
    <2>2. r \notin placed
      BY <2>1 DEF IInv, PlacedInv
    <2>3. ASSUME NEW q \in Req \ {r}, pc'[q] \in InFlight, target'[q] = r PROVE FALSE
      <3>1. pc[q] = pc'[q] /\ target[q] = r
        BY <2>3, StepStays
      <3>2. q # r /\ target[q] = r /\ (pc[q] = "insert" => target[q] = q)
        BY <3>1 DEF IInv, PlacedInv, CreatePc
      <3> QED BY <2>2, <2>3, <3>1, <3>2 DEF IInv, PlacedInv
    <2>4. NewOrder.awb = FALSE
      BY DEF NewOrder
    <2> QED BY <1>2, <2>1, <2>3, <2>4 DEF UnsavedOK
  <1>3. CASE Manifest(r)
    <2>1. pc[r] = "manifest" /\ UNCHANGED orders /\ pc'[r] \in {"createSelect", "failSelect"}
      BY <1>0, <1>3 DEF Manifest, Goto, TypeOK
    <2>2. pc'[r] = "createSelect" => mem' = [mem EXCEPT ![r].awb = TRUE, ![r].status = "CREATED"]
      BY <1>0, <1>3 DEF Manifest, Goto, TypeOK
    <2>3. mem' = [mem EXCEPT ![r].awb = TRUE, ![r].status = "CREATED"] => mem'[r].awb
      BY <1>0 DEF TypeOK, Row
    <2> QED BY <1>0, <1>1, <2>1, <2>2, <2>3 DEF UnsavedOK, Unsaved
  <1>4. CASE CreateSelect(r)
    <2>1. /\ pc[r] = "createSelect" /\ pc'[r] = "createUpdate" /\ target[r] = r /\ UNCHANGED <<orders, mem>>
          /\ dirty'[r] = Differ(mem[r], orders[r])
      BY <1>0, <1>4 DEF CreateSelect, SelectForSave, Goto, TypeOK, CreatePc
    <2>2. mem[r].awb /\ ~orders[r].awb
      BY <1>0, <2>1 DEF UnsavedOK, Unsaved
    <2>3. "awb" \in dirty'[r]
      BY <2>1, <2>2 DEF Differ, Column
    <2> QED BY <1>1, <2>1, <2>2, <2>3 DEF UnsavedOK, Unsaved
  <1>5. pc'[r] \in Unsaved => (Insert(r) /\ pc'[r] = "manifest") \/ Manifest(r) \/ CreateSelect(r)
    BY <1>0 DEF Step, Serve, createOrder, trackOrder, cancelOrder, CreateFind, Insert,
       CreateUpdate, PlacedEvent, FailSelect, FailUpdate, TrackFind, Fetch, AppendScan, TrackSelect, TrackUpdate,
       ReadEvents, AfterReply, CancelFind, CourierCancel, CancelSelect, CancelUpdate, CancelEvent, DbFault, Crash,
       Goto, Finish, TypeOK, Unsaved
  <1> QED BY <1>2, <1>3, <1>4, <1>5 DEF UnsavedOK

(* ... and those of others, who load the row without it.                   *)
LEMMA OthersUnsaved ==
  ASSUME IInv, IInv', AccountInv, NEW r \in Req, Step(r), NEW o \in Req, o # r
  PROVE  UnsavedOK(o)'
  <1> SUFFICES ASSUME pc'[o] \in Unsaved PROVE UnsavedOK(o)'
    BY DEF UnsavedOK
  <1>0. /\ pc[o] \in Unsaved /\ pc'[o] = pc[o] /\ mem'[o] = mem[o] /\ dirty'[o] = dirty[o]
        /\ UnsavedOK(o)
    BY StepStays DEF AccountInv
  <1>1. ~orders[o].awb /\ (pc[o] # "manifest" => mem[o].awb) /\ (pc[o] = "createUpdate" => "awb" \in dirty[o])
    BY <1>0 DEF UnsavedOK
  <1>2. pc[r] \in InFlight /\ target[r] = o => ~mem[r].awb
    BY <1>0 DEF UnsavedOK
  <1>3. ~orders'[o].awb
    <2>1. CASE orders'[o] = Merge(orders[o], mem[r], dirty[r]) /\ target[r] = o /\ pc[r] \in Saving
      <3>1. pc[r] \in InFlight
        BY <2>1 DEF Saving, InFlight, CreatePc, TrackPc, CancelPc
      <3> QED BY <1>1, <1>2, <2>1, <3>1 DEF Merge
    <2> QED BY <1>1, <2>1, RowSources
  <1>4. ASSUME NEW q \in Req \ {o}, pc'[q] \in InFlight, target'[q] = o PROVE ~mem'[q].awb
    <2>1. CASE q # r
      BY <1>0, <1>4, <2>1, StepStays DEF UnsavedOK
    <2>2. CASE q = r
      <3>1. CASE mem'[r] = orders[target'[r]]
        BY <1>1, <1>4, <2>2, <3>1
      <3>2. CASE pc'[r] \in CreatePc \cup {"done"}
        <4>1. pc'[r] \in CreatePc
          BY <1>4, <2>2, <3>2 DEF InFlight, CreatePc, TrackPc, CancelPc
        <4> QED BY <1>4, <2>2, <4>1 DEF IInv, PlacedInv
      <3>3. CASE mem'[r].awb = mem[r].awb /\ pc[r] # "idle"
        <4>1. pc[r] \in InFlight /\ target[r] = o
          BY <1>4, <2>2, <3>3, StepStays
        <4> QED BY <1>2, <2>2, <3>3, <4>1
      <3>4. CancelSelect(r) => pc[r] # "idle"
        BY DEF CancelSelect
      <3> QED BY <3>1, <3>2, <3>3, <3>4, EntitySources
    <2> QED BY <2>1, <2>2
  <1> QED BY <1>0, <1>1, <1>3, <1>4 DEF UnsavedOK

(* Who is stale stays so, on the order it works on.                        *)
LEMMA StaleStays ==
  ASSUME IInv, AccountInv, NEW r \in Req, Step(r), NEW q \in stale
  PROVE  q \in stale' /\ target'[q] = target[q] /\ (pc[q] \in Past => pc'[q] \in Past)
  <1>1. q \in Req /\ pc[q] # "idle"
    BY DEF AccountInv, EntityOK, IInv, TypeInv, TypeOK
  <1> QED BY <1>1, StepStays

(* A booked order stays traced.                                            *)
LEMMA TracedStays ==
  ASSUME IInv, AccountInv, NEW r \in Req, Step(r), NEW o \in Req, o # r \/ orders'[o] = orders[o], Traced(o)
  PROVE  Traced(o)'
  <1>1. (LateCancel(o) => LateCancel(o)') /\ (TwoStale(o) => TwoStale(o)')
    <2>1. LateCancel(o) => LateCancel(o)'
      BY StaleStays DEF LateCancel
    <2>2. TwoStale(o) => TwoStale(o)'
      BY StaleStays DEF TwoStale
    <2> QED BY <2>1, <2>2
  <1>2. CASE orders'[o] = orders[o]
    BY <1>1, <1>2 DEF Traced, Cancelled
  <1>3. CASE /\ target[r] = o /\ pc[r] \in {"trackUpdate", "cancelUpdate"} /\ o # r
             /\ orders'[o] = Merge(orders[o], mem[r], dirty[r])
             /\ pc[r] = "cancelUpdate" => pc'[r] = "cancelEvent"
    <2>1. /\ EntityOK(r) /\ pc[r] \in InFlight \ {"insert"} /\ pc[r] \notin Past /\ r # None
          /\ orders[o] \in Row /\ mem[r] \in Row
      BY <1>3, NoneAssumption DEF AccountInv, InFlight, CreatePc, TrackPc, CancelPc, Past, IInv, TypeInv, TypeOK
    <2>2. r \in stale \/ Keeps(mem[r], orders[o])
      BY <1>3, <2>1 DEF IInv, FreshInv
    <2>3. CASE orders[o].awb
      <3>1. CASE orders'[o].awb
        BY <3>1 DEF Traced
      <3>2. CASE ~orders'[o].awb
        <4>1. ~mem[r].awb
          BY <1>3, <2>3, <3>2 DEF Merge
        <4>2. pc[r] = "cancelUpdate" /\ mem[r].cancelledBy = r /\ "cancelledBy" \in dirty[r]
          BY <1>3, <2>1, <4>1 DEF EntityOK
        <4>3. r \in stale
          BY <2>2, <2>3, <4>1 DEF Keeps
        <4>4. orders'[o].cancelledBy = r
          BY <1>3, <4>2 DEF Merge
        <4>5. r \in stale' /\ target'[r] = o /\ pc'[r] \in Past
          BY <1>3, <4>2, <4>3, StaleStays DEF Past
        <4> QED BY <1>3, <2>1, <4>4, <4>5 DEF Traced, Cancelled, LateCancel
      <3> QED BY <3>1, <3>2
    <2>4. CASE Cancelled(o) /\ LateCancel(o)
      <3>1. CASE Cancelled(o)'
        BY <1>1, <2>4, <3>1 DEF Traced
      <3>2. CASE ~Cancelled(o)'
        <4>1. mem[r].cancelledBy = None /\ orders[o].cancelledBy # None
          BY <1>3, <2>4, <3>2 DEF Merge, Cancelled
        <4>2. r \in stale
          BY <2>2, <4>1 DEF Keeps
        <4>3. PICK c \in stale \ {o} : target[c] = o /\ pc[c] \in Past
          BY <2>4 DEF LateCancel
        <4>4. c # r
          BY <2>1, <4>3
        <4> QED BY <1>1, <1>3, <4>2, <4>3, <4>4 DEF Traced, TwoStale
      <3> QED BY <3>1, <3>2
    <2>5. CASE TwoStale(o)
      BY <1>1, <2>5 DEF Traced
    <2> QED BY <2>3, <2>4, <2>5 DEF Traced
  <1> QED BY <1>2, <1>3, RowSources DEF Saving

(* The order that was told 201, or is about to be, is traced after a step. *)
LEMMA TraceStep ==
  ASSUME IInv, AccountInv, NEW r \in Req, Step(r), NEW o \in Req
  PROVE  TraceOK(o)'
  <1>0. TypeOK /\ TraceOK(o) /\ UnsavedOK(o) /\ (answer[o] = "201" => pc[o] = "done")
    BY DEF AccountInv, IInv, TypeInv, ToldInv
  <1>1. CASE o # r
    BY <1>0, <1>1, StepStays, TracedStays DEF TraceOK
  <1>2. CASE o = r /\ CreateUpdate(r)
    <2>1. pc[r] = "createUpdate" /\ target[r] = r /\ orders' = [orders EXCEPT ![r] = Merge(orders[r], mem[r], dirty[r])]
      BY <1>2 DEF CreateUpdate, UpdateRow, IInv, PlacedInv, CreatePc
    <2>2. mem[r].awb /\ "awb" \in dirty[r]
      BY <1>0, <1>2, <2>1 DEF UnsavedOK, Unsaved
    <2>3. orders'[r].awb
      BY <1>0, <2>1, <2>2 DEF Merge, TypeOK
    <2> QED BY <1>2, <2>3 DEF TraceOK, Traced
  <1>3. CASE o = r /\ PlacedEvent(r)
    <2>1. pc[r] = "placedEvent" /\ orders' = orders
      BY <1>3 DEF PlacedEvent, appendTrackingEvent
    <2> QED BY <1>0, <1>3, <2>1, TracedStays DEF TraceOK
  <1>4. o = r => CreateUpdate(r) \/ PlacedEvent(r) \/ (pc'[r] # "placedEvent" /\ answer'[r] # "201")
    <2>1. answer[r] # "201" \/ o # r
      BY <1>0, StepStays DEF InFlight, CreatePc, TrackPc, CancelPc
    <2> QED BY <1>0, <2>1 DEF Step, Serve, createOrder, trackOrder, cancelOrder, CreateFind, Insert, Manifest, CreateSelect,
       FailSelect, FailUpdate, TrackFind, Fetch, AppendScan, TrackSelect, TrackUpdate,
       ReadEvents, AfterReply, CancelFind, CourierCancel, CancelSelect, CancelUpdate, CancelEvent, DbFault, Crash,
       Goto, Finish, TypeOK
  <1> QED BY <1>1, <1>2, <1>3, <1>4 DEF TraceOK

(* The order whose create failed keeps a reason or a canceller.            *)
LEMMA FailedStep ==
  ASSUME IInv, AccountInv, EvidenceInv, RecordInv, NEW r \in Req, Step(r), NEW o \in Req
  PROVE  FailedOK(o)'
  <1> SUFFICES ASSUME faults' = 0, o \in placed', answer'[o] = "error"
               PROVE  (orders[o].failureReason \/ Cancelled(o))'
    BY DEF FailedOK
  <1>0. /\ TypeOK /\ FailedOK(o) /\ faults \in Nat
        /\ answer[o] = "error" => pc[o] = "done"
        /\ pc[o] \in {"idle", "insert"} => o \notin placed
    BY DEF AccountInv, IInv, TypeInv, TypeOK, PlacedInv, ToldInv
  <1>1. faults = 0 /\ ~DbFault(r)
    <2>1. DbFault(r) => faults' = faults + 1
      BY DEF DbFault
    <2>2. faults' >= faults
      BY StepStays
    <2> QED BY <1>0, <2>1, <2>2
  <1>2. CASE o # r
    <2>1. /\ answer[o] = "error" /\ o \in placed /\ (orders[o].failureReason \/ Cancelled(o))
      BY <1>0, <1>1, <1>2, StepStays DEF FailedOK
    <2>2. CASE orders'[o] = orders[o]
      BY <2>1, <2>2 DEF Cancelled
    <2>3. CASE target[r] = o /\ pc[r] \in Saving /\ orders'[o] = Merge(orders[o], mem[r], dirty[r])
      <3>1. Beside(r)
        BY <1>1, <1>2, <2>1, <2>3 DEF RecordInv, Unbooked, Recording, Saving, InFlight, CreatePc, TrackPc, CancelPc
      <3>2. pc[r] = "cancelUpdate" /\ EntityOK(r)
        BY <2>3, <3>1 DEF Beside, Saving, AccountInv
      <3>3. orders'[o].cancelledBy = r
        BY <2>3, <3>2 DEF EntityOK, Merge
      <3> QED BY <3>3, NoneAssumption DEF Cancelled
    <2> QED BY <1>2, <2>2, <2>3, RowSources
  <1>3. CASE o = r
    <2>1. pc[r] # "done"
      BY StepStays DEF InFlight, CreatePc, TrackPc, CancelPc
    <2>2. FailUpdate(r) \/ Insert(r)
      BY <1>0, <1>1, <1>3, <2>1 DEF Step, Serve, createOrder, trackOrder, cancelOrder, CreateFind, Manifest, CreateSelect,
         CreateUpdate, PlacedEvent, FailSelect, TrackFind, Fetch, AppendScan, TrackSelect, TrackUpdate,
         ReadEvents, AfterReply, CancelFind, CourierCancel, CancelSelect, CancelUpdate, CancelEvent, Crash,
         Goto, Finish, TypeOK
    <2>3. CASE Insert(r)
      <3>1. pc[r] = "insert" /\ placed' = placed
        BY <1>0, <1>3, <2>1, <2>3 DEF Insert, Goto, Finish, TypeOK
      <3> QED BY <1>0, <1>3, <3>1
    <2>4. CASE FailUpdate(r)
      <3>1. pc[r] = "failUpdate" /\ target[r] = r /\ orders' = [orders EXCEPT ![r] = Merge(orders[r], mem[r], dirty[r])]
        BY <2>4 DEF FailUpdate, UpdateRow, IInv, PlacedInv, CreatePc
      <3>2. mem[r].failureReason /\ "failureReason" \in dirty[r]
        BY <3>1 DEF EvidenceInv, HeldOK, CreateHeld
      <3>3. orders'[r].failureReason
        BY <1>0, <3>1, <3>2 DEF Merge, TypeOK
      <3> QED BY <1>3, <3>3
    <2> QED BY <2>2, <2>3, <2>4
  <1> QED BY <1>2, <1>3

(* Every step keeps the traces.                                            *)
LEMMA NextAccount ==
  IInv /\ IInv' /\ AccountInv /\ EvidenceInv /\ RecordInv /\ [Next]_vars => AccountInv'
  <1> SUFFICES ASSUME IInv, IInv', AccountInv, EvidenceInv, RecordInv, [Next]_vars PROVE AccountInv'
    OBVIOUS
  <1>1. ASSUME NEW r \in Req, Step(r) PROVE AccountInv'
    BY <1>1, EntityStep, CancellerStep, OwnUnsaved, OthersUnsaved, TraceStep, FailedStep DEF AccountInv
  <1>2. CASE \/ \E o \in Req : CourierScan(o)
             \/ UNCHANGED vars
    <2>1. UNCHANGED <<placed, orders, pc, target, mem, dirty, answer, faults, stale>>
      BY <1>2 DEF vars, CourierScan
    <2> QED BY <2>1 DEF AccountInv, EntityOK, CancellerOK, UnsavedOK, TraceOK, Traced, FailedOK, Cancelled,
                        LateCancel, TwoStale
  <1> QED BY <1>1, <1>2 DEF Next, Step

(* Of an order whose create was answered the row keeps what it takes to    *)
(* reconcile it with the courier: the reason of the failure, the AWB, or   *)
(* who cancelled it.  Only the saves of two stale entities, on the same    *)
(* order, can leave a shipment without a trace.                            *)
THEOREM ShipmentsReconcilable == Spec => []ShipmentsAccounted
  <1>1. IInv /\ AccountInv => ShipmentsAccounted
    <2> SUFFICES ASSUME IInv, AccountInv, NEW o \in shipped
                 PROVE  /\ answer[o] = "error" /\ faults = 0 => orders[o].failureReason \/ Cancelled(o)
                        /\ answer[o] = "201" => \/ orders[o].awb \/ Cancelled(o)
                                                \/ \E a, b \in stale \ {o} : a # b /\ target[a] = o /\ target[b] = o
      BY DEF ShipmentsAccounted, RowBeforeShipment, IInv, PlacedInv
    <2>1. o \in Req /\ o \in placed
      BY DEF IInv, TypeInv, TypeOK, PlacedInv
    <2> QED BY <2>1 DEF AccountInv, TraceOK, Traced, FailedOK, TwoStale
  <1> QED BY <1>1, AccountInit, NextAccount, EvidenceInit, NextEvidence, RecordInit, NextRecord, Invariant, PTL DEF Spec
=============================================================================
