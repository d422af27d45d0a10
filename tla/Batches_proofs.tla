--------------------------- MODULE Batches_proofs ---------------------------
(***************************************************************************)
(* Theorems about Batches, for any batches, payloads, concurrency, faults  *)
(* and crashes; what holds for one job at a time, or while the process     *)
(* does not die, says so in its statement.                                 *)
(***************************************************************************)
EXTENDS Batches, OrderLedger_proofs, FiniteSetTheorems

-----------------------------------------------------------------------------
(* Data                                                                    *)

ResultStatus == {"SUCCESS", "DUPLICATE", "FAILED"}

(* The parts of a job, and the callers its runs are.                       *)
LEMMA JobParts ==
  ASSUME NEW j \in Job
  PROVE  /\ j[1] \in Batch /\ j[2] \in ExtId /\ j = <<j[1], j[2]>>
         /\ \A n : run(j, n)[1] = j[1] /\ run(j, n)[2] = j[2] /\ run(j, n)[3] = n
         /\ \A n \in 1..MaxRuns : run(j, n) \in Caller /\ run(j, n) \in RunsOf(j)
         /\ \A c \in RunsOf(j) : c \in Caller /\ c[2] = j[2]
  BY CallerAssumption DEF Job, run, RunsOf

(* A row as submitBulk saves it is a row.                                  *)
LEMMA NewBatchType ==
  ASSUME NEW n \in Nat, NEW m \in Nat PROVE NewBatch(n, m) \in Row
  <1>1. [i \in 1..m |-> [ext |-> None, status |-> "INVALID"]] \in Seq(Result)
    BY DEF Result
  <1> QED BY <1>1 DEF NewBatch, Row

(* The handler turns a row into a row.                                     *)
LEMMA CountType ==
  ASSUME NEW row \in Row, NEW e \in ExtId, NEW s \in ResultStatus
  PROVE  Count(row, e, s) \in Row
  <1>1. Append(row.results, [ext |-> e, status |-> s]) \in Seq(Result)
    BY DEF Row, Result, ResultStatus
  <1> QED BY <1>1 DEF Count, Row, ResultStatus

(* A save leaves a row, whichever columns it writes.                       *)
LEMMA MergeType ==
  ASSUME NEW old \in Row, NEW new \in Row, NEW cols
  PROVE  Merge(old, new, cols) \in Row
  BY DEF Merge, Row

(* The columns that differ are columns.                                    *)
LEMMA DifferType == \A a, b : Differ(a, b) \subseteq Column
  BY DEF Differ

(* The lengths of a request's valid orders are naturals.                   *)
LEMMA PayloadLength ==
  \A orders \in Payload \cup {<< >>} : orders \in Seq(ExtId) /\ Len(orders) \in Nat
  <1>1. << >> \in Seq(ExtId)
    OBVIOUS
  <1>2. \A orders \in Seq(ExtId) : Len(orders) \in Nat
    OBVIOUS
  <1> QED BY <1>1, <1>2, PayloadAssumption

-----------------------------------------------------------------------------
(* Jobs and their runs                                                     *)

(* Where a job is says how often its handler was started: every start but  *)
(* the last ended in a failed attempt or a stall.                          *)
Accounted(j) ==
  /\ pc[j] # "idle" <=> state[j] = "active"
  /\ state[j] # "none" => j[2] \in ordersOf(j[1]) /\ api[j[1]] = "accepted"
  /\ state[j] # "failed" => made[j] < attempts /\ stalls[j] <= maxStalledCount
  /\ state[j] \in {"none", "waiting"} => runs[j] = made[j] + stalls[j]
  /\ state[j] \in {"active", "stalled", "completed"} => runs[j] = made[j] + stalls[j] + 1

QueueInv == \A j \in Job : Accounted(j)

CoreInv == TypeOK /\ LedgerInv /\ QueueInv

(* A handler that runs is one of the runs a job may have.                  *)
LEMMA ActiveRun ==
  ASSUME CoreInv, NEW j \in Job, pc[j] # "idle"
  PROVE  runs[j] \in 1..MaxRuns /\ run(j, runs[j]) \in Caller /\ run(j, runs[j]) \in RunsOf(j)
  <1>1. state[j] = "active" /\ runs[j] = made[j] + stalls[j] + 1
        /\ made[j] < attempts /\ stalls[j] <= maxStalledCount
    BY DEF CoreInv, QueueInv, Accounted
  <1>2. made[j] \in Nat /\ stalls[j] \in Nat
    <2>1. made \in [Job -> 0..attempts] /\ stalls \in [Job -> 0..maxStalledCount + 1]
      BY DEF CoreInv, TypeOK
    <2> QED BY <2>1 DEF attempts, maxStalledCount
  <1>3. runs[j] \in 1..MaxRuns
    BY <1>1, <1>2 DEF attempts, maxStalledCount, MaxRuns
  <1> QED BY <1>3, JobParts

(* Every step of the service is an entry of the ledger or none.            *)
LEMMA LedgerStep == CoreInv /\ [Next]_vars => [LedgerNext]_ledger
  <1> SUFFICES ASSUME CoreInv, [Next]_vars PROVE [LedgerNext]_ledger
    OBVIOUS
  <1>1. ASSUME NEW j \in Job, CreateOrder(j) PROVE LedgerNext
    <2>1. run(j, runs[j]) \in Caller
      BY <1>1, ActiveRun DEF CreateOrder
    <2> QED BY <1>1, <2>1 DEF CreateOrder, LedgerNext
  <1>2. ASSUME NEW j \in Job, OrderDone(j) PROVE LedgerNext
    <2>1. run(j, runs[j]) \in Caller
      BY <1>2, ActiveRun DEF OrderDone
    <2> QED BY <1>2, <2>1 DEF OrderDone, LedgerNext
  <1>3. ASSUME NEW b \in Batch, submitBulk(b) \/ EnqueueFails(b) PROVE UNCHANGED ledger
    BY <1>3 DEF submitBulk, SaveBatch, Enqueue, EnqueueFails
  <1>4. ASSUME NEW j \in Job,
               \/ Take(j) \/ FindBatch(j) \/ SelectBatch(j) \/ UpdateBatch(j)
               \/ Complete(j) \/ HandlerThrows(j) \/ Recover(j)
        PROVE  UNCHANGED ledger
    BY <1>4 DEF Take, FindBatch, SelectBatch, UpdateBatch, Complete, HandlerThrows, Recover
  <1>5. CASE Crash
    BY <1>5 DEF Crash
  <1>6. CASE UNCHANGED vars
    BY <1>6 DEF vars, ledger
  <1> QED BY <1>1, <1>2, <1>3, <1>4, <1>5, <1>6 DEF Next, processJob

(* Before anything is submitted the invariant holds.                       *)
LEMMA CoreInit == Init => CoreInv
  <1> SUFFICES ASSUME Init PROVE CoreInv
    OBVIOUS
  <1>1. LedgerInv
    BY LedgerInitInv DEF Init
  <1>2. NewBatch(0, 0) \in Row
    BY NewBatchType
  <1>3. TypeOK
    BY <1>1, <1>2, BoundAssumption DEF Init, TypeOK, LedgerInv, MaxRuns, attempts, maxStalledCount
  <1>4. QueueInv
    BY JobParts DEF Init, QueueInv, Accounted, attempts, maxStalledCount
  <1> QED BY <1>1, <1>3, <1>4 DEF CoreInv

(* A job that a step leaves where it was stays accounted for.              *)
LEMMA AccountedFrame ==
  ASSUME NEW j \in Job, Accounted(j),
         state'[j] = state[j], pc'[j] = pc[j], runs'[j] = runs[j],
         made'[j] = made[j], stalls'[j] = stalls[j],
         valid'[j[1]] = valid[j[1]], api'[j[1]] = api[j[1]]
  PROVE  Accounted(j)'
  BY DEF Accounted, ordersOf

(* The ranges of the queue's variables, with the numbers in place.         *)
LEMMA QueueTypes ==
  ASSUME CoreInv
  PROVE  /\ made \in [Job -> 0..3] /\ stalls \in [Job -> 0..2] /\ runs \in [Job -> 0..4]
         /\ state \in [Job -> {"none", "waiting", "active", "stalled", "completed", "failed"}]
         /\ pc \in [Job -> {"idle", "find", "create", "select", "update", "ack"}]
  <1>1. TypeOK
    BY DEF CoreInv
  <1>2. 0..attempts = 0..3 /\ 0..maxStalledCount + 1 = 0..2 /\ 0..MaxRuns = 0..4
    BY DEF attempts, maxStalledCount, MaxRuns
  <1> QED BY <1>1, <1>2 DEF TypeOK

(* submitBulk and a failing queue keep types and accounts.                 *)
LEMMA SubmitCore ==
  ASSUME CoreInv, NEW b \in Batch, submitBulk(b) \/ EnqueueFails(b)
  PROVE  TypeOK' /\ QueueInv'
  <1>0. TypeOK /\ QueueInv
    BY DEF CoreInv
  <1>1. CASE SaveBatch(b)
    <2>1. PICK orders \in Payload, m \in 0..MaxInvalid :
            /\ valid' = [valid EXCEPT ![b] = orders]
            /\ invalid' = [invalid EXCEPT ![b] = m]
            /\ rows' = [rows EXCEPT ![b] = NewBatch(Len(orders), m)]
            /\ api' = [api EXCEPT ![b] = IF Len(orders) > 0 THEN "saved" ELSE "accepted"]
      BY <1>1 DEF SaveBatch
    <2>2. NewBatch(Len(orders), m) \in Row
      BY NewBatchType, PayloadLength, BoundAssumption
    <2>3. UNCHANGED <<ledger, queue, mem, dirty, faults, crashes>> /\ api[b] = "none"
      BY <1>1 DEF SaveBatch
    <2>4. TypeOK'
      BY <1>0, <2>1, <2>2, <2>3 DEF TypeOK, ledger, queue, LedgerTypeOK
    <2>5. ASSUME NEW j \in Job PROVE Accounted(j)'
      <3>1. CASE j[1] # b
        <4>1. valid'[j[1]] = valid[j[1]] /\ api'[j[1]] = api[j[1]]
          BY <1>0, <2>1, <3>1, JobParts DEF TypeOK
        <4> QED BY <1>0, <2>3, <4>1, AccountedFrame DEF QueueInv, queue
      <3>2. CASE j[1] = b
        <4>1. state[j] = "none"
          BY <1>0, <2>3, <3>2 DEF QueueInv, Accounted
        <4> QED BY <1>0, <2>3, <4>1 DEF QueueInv, Accounted, queue
      <3> QED BY <3>1, <3>2
    <2> QED BY <2>4, <2>5 DEF QueueInv
  <1>2. CASE Enqueue(b)
    <2>1. /\ api[b] = "saved" /\ api' = [api EXCEPT ![b] = "accepted"]
          /\ state' = [j \in Job |-> IF j[1] = b /\ j[2] \in ordersOf(b) THEN "waiting" ELSE state[j]]
          /\ UNCHANGED <<ledger, valid, invalid, rows, pc, runs, made, stalls, mem, dirty, faults, crashes>>
      BY <1>2 DEF Enqueue
    <2>2. TypeOK'
      BY <1>0, <2>1 DEF TypeOK, ledger, LedgerTypeOK
    <2>3. ASSUME NEW j \in Job PROVE Accounted(j)'
      <3>1. CASE j[1] # b
        <4>1. state'[j] = state[j] /\ api'[j[1]] = api[j[1]]
          BY <1>0, <2>1, <3>1, JobParts DEF TypeOK
        <4> QED BY <1>0, <2>1, <4>1, AccountedFrame DEF QueueInv
      <3>2. CASE j[1] = b
        <4>1. state[j] = "none" /\ api'[j[1]] = "accepted"
          BY <1>0, <2>1, <3>2 DEF QueueInv, Accounted, TypeOK
        <4>2. ordersOf(b)' = ordersOf(b)
          BY <2>1 DEF ordersOf
        <4>3. state'[j] \in {"none", "waiting"} /\ (state'[j] # "none" => j[2] \in ordersOf(b))
          BY <2>1, <3>2, <4>1
        <4> QED BY <1>0, <2>1, <3>2, <4>1, <4>2, <4>3 DEF QueueInv, Accounted
      <3> QED BY <3>1, <3>2
    <2> QED BY <2>2, <2>3 DEF QueueInv
  <1>3. CASE EnqueueFails(b)
    <2>1. /\ api[b] = "saved" /\ api' = [api EXCEPT ![b] = "refused"]
          /\ faults < MaxFaults /\ faults' = faults + 1
          /\ UNCHANGED <<ledger, valid, invalid, rows, queue, mem, dirty, crashes>>
      BY <1>3 DEF EnqueueFails
    <2>2. TypeOK'
      BY <1>0, <2>1, BoundAssumption DEF TypeOK, ledger, queue, LedgerTypeOK
    <2>3. ASSUME NEW j \in Job PROVE Accounted(j)'
      <3>1. state[j] # "none" => j[1] # b
        BY <1>0, <2>1 DEF QueueInv, Accounted
      <3>2. state[j] # "none" => api'[j[1]] = "accepted"
        BY <1>0, <2>1, <3>1, JobParts DEF QueueInv, Accounted, TypeOK
      <3>3. ordersOf(j[1])' = ordersOf(j[1])
        BY <2>1 DEF ordersOf
      <3> QED BY <1>0, <2>1, <3>2, <3>3 DEF QueueInv, Accounted, queue
    <2> QED BY <2>2, <2>3 DEF QueueInv
  <1> QED BY <1>1, <1>2, <1>3 DEF submitBulk

(* The steps of a handler that move nothing in the queue but where the     *)
(* handler is keep types and accounts.                                     *)
LEMMA HandlerCore ==
  ASSUME CoreInv, NEW j \in Job, processJob(j)
  PROVE  TypeOK' /\ QueueInv'
  <1>0. TypeOK /\ QueueInv
    BY DEF CoreInv
  <1>1. [LedgerNext]_ledger
    BY LedgerStep DEF Next
  <1>2. LedgerTypeOK'
    BY <1>1, LedgerNextInv DEF CoreInv, LedgerInv
  <1>3. /\ pc[j] # "idle"
        /\ UNCHANGED <<api, valid, invalid, state, runs, made, stalls, faults, crashes>>
        /\ pc' = pc \/ \E w \in {"find", "create", "select", "update", "ack"} : pc' = [pc EXCEPT ![j] = w]
    BY DEF processJob, FindBatch, CreateOrder, OrderDone, SelectBatch, UpdateBatch, queue
  <1>4. pc' \in [Job -> {"idle", "find", "create", "select", "update", "ack"}]
    BY <1>3, QueueTypes
  <1>5. rows' \in [Batch -> Row] /\ mem' \in [Job -> Row] /\ dirty' \in [Job -> SUBSET Column]
    <2>0. rows \in [Batch -> Row] /\ mem \in [Job -> Row] /\ dirty \in [Job -> SUBSET Column] /\ j[1] \in Batch
      BY <1>0, JobParts DEF TypeOK
    <2>1. CASE FindBatch(j)
      BY <2>0, <2>1 DEF FindBatch
    <2>2. CASE CreateOrder(j)
      BY <2>0, <2>2 DEF CreateOrder
    <2>3. CASE OrderDone(j)
      <3>1. PICK s \in ResultStatus : mem' = [mem EXCEPT ![j] = Count(@, j[2], s)]
        BY <2>3 DEF OrderDone, ResultStatus
      <3>2. Count(mem[j], j[2], s) \in Row
        BY <2>0, CountType, JobParts
      <3> QED BY <2>0, <2>3, <3>1, <3>2 DEF OrderDone
    <2>4. CASE SelectBatch(j)
      BY <2>0, <2>4, DifferType DEF SelectBatch
    <2>5. CASE UpdateBatch(j)
      <3>1. Merge(rows[j[1]], mem[j], dirty[j]) \in Row
        BY <2>0, MergeType
      <3> QED BY <2>0, <2>5, <3>1 DEF UpdateBatch
    <2> QED BY <2>1, <2>2, <2>3, <2>4, <2>5 DEF processJob
  <1>6. TypeOK'
    BY <1>0, <1>2, <1>3, <1>4, <1>5 DEF TypeOK
  <1>7. ASSUME NEW k \in Job PROVE Accounted(k)'
    <2>1. Accounted(k) /\ (pc'[k] = "idle" <=> pc[k] = "idle")
      BY <1>0, <1>3, QueueTypes DEF QueueInv
    <2>2. ordersOf(k[1])' = ordersOf(k[1])
      BY <1>3 DEF ordersOf
    <2> QED BY <1>3, <2>1, <2>2 DEF Accounted
  <1> QED BY <1>6, <1>7 DEF QueueInv

(* What the queue does with a job keeps types and accounts.                *)
LEMMA JobCore ==
  ASSUME CoreInv, NEW j \in Job, Take(j) \/ Complete(j) \/ HandlerThrows(j) \/ Recover(j)
  PROVE  TypeOK' /\ QueueInv'
  <1>0. TypeOK /\ QueueInv /\ NewBatch(0, 0) \in Row
    BY NewBatchType DEF CoreInv
  <1>1. UNCHANGED <<ledger, api, valid, invalid, rows, crashes>>
    BY DEF Take, Complete, HandlerThrows, Recover
  <1>2. mem' \in [Job -> Row] /\ dirty' \in [Job -> SUBSET Column]
    <2>1. UNCHANGED <<mem, dirty>> \/ Drop({j})
      BY DEF Take, Complete, HandlerThrows, Recover
    <2> QED BY <1>0, <2>1 DEF TypeOK, Drop
  <1>3. faults' \in 0..MaxFaults
    BY <1>0, BoundAssumption DEF Take, Complete, HandlerThrows, Recover, TypeOK
  <1>4. /\ Accounted(j)'
        /\ runs' \in [Job -> 0..MaxRuns] /\ made' \in [Job -> 0..attempts]
        /\ stalls' \in [Job -> 0..maxStalledCount + 1]
        /\ state' \in [Job -> {"none", "waiting", "active", "stalled", "completed", "failed"}]
        /\ pc' \in [Job -> {"idle", "find", "create", "select", "update", "ack"}]
        /\ \A k \in Job \ {j} : /\ state'[k] = state[k] /\ pc'[k] = pc[k] /\ runs'[k] = runs[k]
                                /\ made'[k] = made[k] /\ stalls'[k] = stalls[k]
    <2>1. Accounted(j) /\ ordersOf(j[1])' = ordersOf(j[1])
      BY <1>0, <1>1 DEF QueueInv, ordersOf
    <2>2. runs[j] \in 0..4 /\ made[j] \in 0..3 /\ stalls[j] \in 0..2
      BY QueueTypes
    <2>3. CASE Take(j)
      <3>1. /\ state[j] = "waiting" /\ state' = [state EXCEPT ![j] = "active"]
            /\ runs' = [runs EXCEPT ![j] = @ + 1] /\ pc' = [pc EXCEPT ![j] = "find"]
            /\ UNCHANGED <<made, stalls>>
        BY <2>3 DEF Take
      <3>2. runs[j] = made[j] + stalls[j] /\ made[j] <= 2 /\ stalls[j] <= 1
        BY <2>1, <2>2, <3>1 DEF Accounted, attempts, maxStalledCount
      <3>3. runs[j] + 1 \in 0..4
        BY <2>2, <3>2
      <3>4. Accounted(j)'
        BY <1>1, <2>1, <2>2, <3>1, <3>2, QueueTypes DEF Accounted
      <3> QED BY <3>1, <3>3, <3>4, QueueTypes DEF attempts, maxStalledCount, MaxRuns
    <2>4. CASE Complete(j)
      <3>1. /\ pc[j] = "ack" /\ state' = [state EXCEPT ![j] = "completed"]
            /\ pc' = [pc EXCEPT ![j] = "idle"] /\ UNCHANGED <<runs, made, stalls>>
        BY <2>4 DEF Complete
      <3>2. Accounted(j)'
        BY <1>1, <2>1, <3>1, QueueTypes DEF Accounted
      <3> QED BY <3>1, <3>2, QueueTypes DEF attempts, maxStalledCount, MaxRuns
    <2>5. CASE HandlerThrows(j)
      <3>1. /\ pc[j] \in {"find", "select", "update"} /\ made' = [made EXCEPT ![j] = @ + 1]
            /\ state' = [state EXCEPT ![j] = IF made'[j] < attempts THEN "waiting" ELSE "failed"]
            /\ pc' = [pc EXCEPT ![j] = "idle"] /\ UNCHANGED <<runs, stalls>>
        BY <2>5 DEF HandlerThrows
      <3>2. /\ runs[j] = made[j] + stalls[j] + 1 /\ made[j] <= 2 /\ stalls[j] <= 1
            /\ state[j] = "active" /\ made'[j] = made[j] + 1
        BY <2>1, <2>2, <3>1, QueueTypes DEF Accounted, attempts, maxStalledCount
      <3>3. made' \in [Job -> 0..3]
        BY <2>2, <3>1, <3>2, QueueTypes
      <3>4. Accounted(j)'
        <4>1. state'[j] = (IF made[j] + 1 < 3 THEN "waiting" ELSE "failed") /\ pc'[j] = "idle"
          BY <3>1, <3>2, QueueTypes DEF attempts
        <4> QED BY <1>1, <2>1, <2>2, <3>1, <3>2, <4>1 DEF Accounted, attempts, maxStalledCount
      <3>5. \A k \in Job \ {j} : made'[k] = made[k] /\ state'[k] = state[k] /\ pc'[k] = pc[k]
        BY <3>1, QueueTypes
      <3>6. state' \in [Job -> {"none", "waiting", "active", "stalled", "completed", "failed"}]
        BY <3>1, QueueTypes
      <3> QED BY <3>1, <3>3, <3>4, <3>5, <3>6, QueueTypes DEF attempts, maxStalledCount, MaxRuns
    <2>6. CASE Recover(j)
      <3>1. /\ state[j] = "stalled" /\ stalls' = [stalls EXCEPT ![j] = @ + 1]
            /\ state' = [state EXCEPT ![j] = IF stalls'[j] > maxStalledCount THEN "failed" ELSE "waiting"]
            /\ UNCHANGED <<pc, runs, made>>
        BY <2>6 DEF Recover
      <3>2. /\ runs[j] = made[j] + stalls[j] + 1 /\ made[j] <= 2 /\ stalls[j] <= 1
            /\ pc[j] = "idle" /\ stalls'[j] = stalls[j] + 1
        BY <2>1, <2>2, <3>1, QueueTypes DEF Accounted, attempts, maxStalledCount
      <3>3. stalls' \in [Job -> 0..2]
        BY <2>2, <3>1, <3>2, QueueTypes
      <3>4. Accounted(j)'
        <4>1. state'[j] = (IF stalls[j] + 1 > 1 THEN "failed" ELSE "waiting")
          BY <3>1, <3>2, QueueTypes DEF maxStalledCount
        <4> QED BY <1>1, <2>1, <2>2, <3>1, <3>2, <4>1 DEF Accounted, attempts, maxStalledCount
      <3>5. \A k \in Job \ {j} : stalls'[k] = stalls[k] /\ state'[k] = state[k]
        BY <3>1, QueueTypes
      <3>6. state' \in [Job -> {"none", "waiting", "active", "stalled", "completed", "failed"}]
        BY <3>1, QueueTypes
      <3> QED BY <3>1, <3>3, <3>4, <3>5, <3>6, QueueTypes DEF attempts, maxStalledCount, MaxRuns
    <2> QED BY <2>3, <2>4, <2>5, <2>6
  <1>5. TypeOK'
    BY <1>0, <1>1, <1>2, <1>3, <1>4 DEF TypeOK, ledger, LedgerTypeOK
  <1>6. ASSUME NEW k \in Job \ {j} PROVE Accounted(k)'
    <2>1. valid'[k[1]] = valid[k[1]] /\ api'[k[1]] = api[k[1]]
      BY <1>1
    <2> QED BY <1>0, <1>4, <2>1, AccountedFrame DEF QueueInv
  <1> QED BY <1>4, <1>5, <1>6 DEF QueueInv

(* The death of the process keeps types and accounts.                      *)
LEMMA CrashCore ==
  ASSUME CoreInv, Crash
  PROVE  TypeOK' /\ QueueInv'
  <1>0. TypeOK /\ QueueInv /\ NewBatch(0, 0) \in Row
    BY NewBatchType DEF CoreInv
  <1>1. /\ crashes < MaxCrashes /\ crashes' = crashes + 1
        /\ api' = [b \in Batch |-> IF api[b] = "saved" THEN "refused" ELSE api[b]]
        /\ state' = [j \in Job |-> IF state[j] = "active" THEN "stalled" ELSE state[j]]
        /\ pc' = [j \in Job |-> "idle"]
        /\ UNCHANGED <<ledger, valid, invalid, rows, runs, made, stalls, faults>>
    BY DEF Crash
  <1>2. mem' \in [Job -> Row] /\ dirty' \in [Job -> SUBSET Column]
    BY <1>0 DEF Crash, Drop, TypeOK
  <1>3. TypeOK'
    BY <1>0, <1>1, <1>2, BoundAssumption DEF TypeOK, ledger, LedgerTypeOK
  <1>4. ASSUME NEW k \in Job PROVE Accounted(k)'
    <2>1. /\ state'[k] = (IF state[k] = "active" THEN "stalled" ELSE state[k]) /\ pc'[k] = "idle"
          /\ ordersOf(k[1])' = ordersOf(k[1]) /\ (api[k[1]] = "accepted" => api'[k[1]] = "accepted")
      BY <1>1, JobParts DEF ordersOf
    <2> QED BY <1>0, <1>1, <2>1 DEF QueueInv, Accounted
  <1> QED BY <1>3, <1>4 DEF QueueInv

(* Every step keeps types, the ledger's invariant and the accounts.        *)
LEMMA CoreNext == CoreInv /\ [Next]_vars => CoreInv'
  <1> SUFFICES ASSUME CoreInv, [Next]_vars PROVE CoreInv'
    OBVIOUS
  <1>1. LedgerInv'
    BY LedgerStep, LedgerNextInv DEF CoreInv
  <1>2. TypeOK' /\ QueueInv'
    <2>1. CASE UNCHANGED vars
      <3>1. TypeOK'
        BY <2>1 DEF CoreInv, TypeOK, vars, queue, ledger, LedgerTypeOK
      <3>2. QueueInv'
        BY <2>1, AccountedFrame DEF CoreInv, QueueInv, vars, queue
      <3> QED BY <3>1, <3>2
    <2> QED BY <2>1, SubmitCore, HandlerCore, JobCore, CrashCore DEF Next
  <1> QED BY <1>1, <1>2 DEF CoreInv

(* Types, the ledger's invariant and the accounts hold for ever.           *)
THEOREM CoreCorrect == Spec => []CoreInv
  BY CoreInit, CoreNext, PTL DEF Spec

(* Every variable stays within its type: a job is started at most four     *)
(* times, whatever attempts, faults and stalls it meets.                   *)
THEOREM TypeCorrect == Spec => []TypeOK
  <1>1. CoreInv => TypeOK
    BY DEF CoreInv
  <1> QED BY <1>1, CoreCorrect, PTL

(* The queue and its worker use createOrder as the ledger allows.          *)
THEOREM ImplementsLedger == Spec => LedgerSpec
  <1>1. Init => LedgerInit
    BY DEF Init
  <1> QED BY <1>1, CoreCorrect, LedgerStep, PTL DEF Spec, LedgerSpec

(* However batches overlap, crash and are re-attempted, no order_id is     *)
(* booked by two jobs, or by two runs of one.                              *)
THEOREM BookedOnce == Spec => []OneBookingPerExtId
  BY ImplementsLedger, LedgerSafety, PTL

-----------------------------------------------------------------------------
(* Results                                                                 *)

(* What is in the ledger stays there.                                      *)
LEMMA LedgerGrows ==
  ASSUME LedgerInv, [LedgerNext]_ledger
  PROVE  /\ \A e \in ExtId : owner[e] # None => owner'[e] = owner[e]
         /\ booked \subseteq booked'
         /\ \A c \in Caller : outcome[c] # "none" => outcome'[c] = outcome[c]
  <1>0. owner \in [ExtId -> Caller \cup {None}] /\ outcome \in [Caller -> Outcome]
    BY DEF LedgerInv, LedgerTypeOK
  <1>1. CASE UNCHANGED ledger
    BY <1>1 DEF ledger
  <1>2. ASSUME NEW r \in Caller, Claim(r)
        PROVE  \A e \in ExtId : owner[e] # None => owner'[e] = owner[e]
    BY <1>0, <1>2 DEF Claim
  <1>3. ASSUME NEW r \in Caller, Claim(r) PROVE UNCHANGED <<booked, outcome>>
    BY <1>3 DEF Claim
  <1>4. ASSUME NEW r \in Caller, Book(r) PROVE UNCHANGED <<owner, outcome>> /\ booked \subseteq booked'
    BY <1>4 DEF Book
  <1>5. ASSUME NEW r \in Caller, NEW what, Tell(r, what)
        PROVE  /\ UNCHANGED <<owner, booked>>
               /\ \A c \in Caller : outcome[c] # "none" => outcome'[c] = outcome[c]
    BY <1>0, <1>5 DEF Tell
  <1> QED BY <1>1, <1>2, <1>3, <1>4, <1>5 DEF LedgerNext, Created, Duplicate, Fail

(* An order belongs to a run of a job that carries its order_id.           *)
OwnersCarry == \A e \in ExtId : owner[e] # None => owner[e][2] = e

(* Every SUCCESS among the results is an order this batch has booked.      *)
Backed(results, b) ==
  \A i \in DOMAIN results :
    results[i].status = "SUCCESS" =>
      /\ results[i].ext \in ExtId
      /\ owner[results[i].ext] \in RunsOf(<<b, results[i].ext>>)
      /\ owner[results[i].ext] \in booked

SuccessInv == /\ OwnersCarry
              /\ \A b \in Batch : Backed(rows[b].results, b)
              /\ \A j \in Job : Backed(mem[j].results, j[1])

(* Results that are backed stay so.                                        *)
LEMMA BackedStable ==
  ASSUME CoreInv, [Next]_vars, NEW results, NEW b \in Batch, Backed(results, b)
  PROVE  Backed(results, b)'
  <1>1. [LedgerNext]_ledger /\ LedgerInv
    BY LedgerStep DEF CoreInv
  <1> SUFFICES ASSUME NEW i \in DOMAIN results, results[i].status = "SUCCESS"
               PROVE  owner'[results[i].ext] = owner[results[i].ext] /\ owner[results[i].ext] \in booked'
    BY DEF Backed
  <1> DEFINE e == results[i].ext
  <1>2. e \in ExtId /\ owner[e] \in RunsOf(<<b, e>>) /\ owner[e] \in booked
    BY DEF Backed
  <1>3. <<b, e>> \in Job
    BY <1>2 DEF Job
  <1>4. owner[e] # None
    BY <1>2, <1>3, JobParts, LedgerAssumption
  <1> QED BY <1>1, <1>2, <1>4, LedgerGrows

(* Nothing but the handler of a job puts an order_id under a run, and that *)
(* of its own job.                                                         *)
LEMMA OwnersStep ==
  ASSUME CoreInv, OwnersCarry, [Next]_vars
  PROVE  OwnersCarry'
  <1>1. ASSUME NEW j \in Job, CreateOrder(j) PROVE OwnersCarry'
    <2> DEFINE c == run(j, runs[j])
    <2>1. c \in Caller /\ c[2] = j[2] /\ j[2] \in ExtId
      BY <1>1, ActiveRun, JobParts DEF CreateOrder
    <2>2. owner \in [ExtId -> Caller \cup {None}]
      BY DEF CoreInv, TypeOK, LedgerTypeOK
    <2>3. CASE Claim(c) /\ owner'[j[2]] = c
      <3>1. PICK e \in ExtId : owner[e] = None /\ owner' = [owner EXCEPT ![e] = c]
        BY <2>3 DEF Claim
      <3>2. owner[j[2]] # c
        BY <2>1, <2>3 DEF Claim, Owns
      <3>3. e = j[2]
        BY <2>1, <2>2, <2>3, <3>1, <3>2
      <3> QED BY <2>1, <2>2, <3>1, <3>3 DEF OwnersCarry
    <2>4. CASE Book(c)
      BY <2>4 DEF Book, OwnersCarry
    <2> QED BY <1>1, <2>3, <2>4 DEF CreateOrder
  <1>2. CASE UNCHANGED owner
    BY <1>2 DEF OwnersCarry
  <1>3. (\E j \in Job : CreateOrder(j)) \/ UNCHANGED owner
    <2>1. ASSUME NEW j \in Job, OrderDone(j) PROVE UNCHANGED owner
      BY <2>1 DEF OrderDone, Created, Duplicate, Fail, Tell
    <2>2. ASSUME NEW b \in Batch, submitBulk(b) \/ EnqueueFails(b) PROVE UNCHANGED owner
      BY <2>2 DEF submitBulk, SaveBatch, Enqueue, EnqueueFails, ledger
    <2>3. ASSUME NEW j \in Job,
                 \/ Take(j) \/ FindBatch(j) \/ SelectBatch(j) \/ UpdateBatch(j)
                 \/ Complete(j) \/ HandlerThrows(j) \/ Recover(j)
          PROVE  UNCHANGED owner
      BY <2>3 DEF Take, FindBatch, SelectBatch, UpdateBatch, Complete, HandlerThrows, Recover, ledger
    <2>4. CASE Crash
      BY <2>4 DEF Crash, ledger
    <2>5. CASE UNCHANGED vars
      BY <2>5 DEF vars, ledger
    <2> QED BY <2>1, <2>2, <2>3, <2>4, <2>5 DEF Next, processJob
  <1> QED BY <1>1, <1>2, <1>3

(* The run that is told "created" owns its order_id and has booked it.     *)
LEMMA CreatedOwns ==
  ASSUME CoreInv, OwnersCarry, NEW j \in Job, pc[j] = "create", Created(run(j, runs[j]))
  PROVE  owner[j[2]] = run(j, runs[j]) /\ owner[j[2]] \in booked /\ UNCHANGED <<owner, booked>>
  <1> DEFINE c == run(j, runs[j])
  <1>1. c \in booked /\ UNCHANGED <<owner, booked>>
    BY DEF Created, Tell
  <1>2. PICK e \in ExtId : owner[e] = c
    BY <1>1 DEF CoreInv, LedgerInv, Owns
  <1>3. c \in Caller /\ c[2] = j[2]
    BY ActiveRun, JobParts
  <1>4. e = j[2]
    BY <1>2, <1>3, LedgerAssumption DEF OwnersCarry
  <1> QED BY <1>1, <1>2, <1>4

(* What a step can do to the rows: a batch is saved, or a handler's save   *)
(* writes columns of its entity.                                           *)
LEMMA RowsStep ==
  ASSUME CoreInv, [Next]_vars, NEW b \in Batch
  PROVE  \/ rows'[b] = rows[b]
         \/ SaveBatch(b) /\ \E n \in Nat, m \in Nat : rows'[b] = NewBatch(n, m)
         \/ \E j \in Job : j[1] = b /\ UpdateBatch(j) /\ rows'[b] = Merge(rows[b], mem[j], dirty[j])
  <1>0. rows \in [Batch -> Row]
    BY DEF CoreInv, TypeOK
  <1>1. ASSUME NEW a \in Batch, SaveBatch(a)
        PROVE  \/ rows'[b] = rows[b]
               \/ a = b /\ \E n \in Nat, m \in Nat : rows'[b] = NewBatch(n, m)
    <2>1. PICK orders \in Payload, m \in 0..MaxInvalid : rows' = [rows EXCEPT ![a] = NewBatch(Len(orders), m)]
      BY <1>1 DEF SaveBatch
    <2>2. Len(orders) \in Nat /\ m \in Nat
      BY PayloadLength, BoundAssumption
    <2>3. CASE a = b
      BY <1>0, <2>1, <2>2, <2>3
    <2>4. CASE a # b
      BY <1>0, <2>1, <2>4
    <2> QED BY <2>3, <2>4
  <1>2. ASSUME NEW j \in Job, UpdateBatch(j)
        PROVE  \/ rows'[b] = rows[b]
               \/ j[1] = b /\ rows'[b] = Merge(rows[b], mem[j], dirty[j])
    <2>1. rows' = [rows EXCEPT ![j[1]] = Merge(rows[j[1]], mem[j], dirty[j])] /\ j[1] \in Batch
      BY <1>2, JobParts DEF UpdateBatch
    <2>2. CASE j[1] = b
      BY <1>0, <2>1, <2>2
    <2>3. CASE j[1] # b
      BY <1>0, <2>1, <2>3
    <2> QED BY <2>2, <2>3
  <1>3. ASSUME NEW a \in Batch, Enqueue(a) \/ EnqueueFails(a) PROVE rows' = rows
    BY <1>3 DEF Enqueue, EnqueueFails
  <1>4. ASSUME NEW j \in Job,
               \/ Take(j) \/ FindBatch(j) \/ CreateOrder(j) \/ OrderDone(j) \/ SelectBatch(j)
               \/ Complete(j) \/ HandlerThrows(j) \/ Recover(j)
        PROVE  rows' = rows
    BY <1>4 DEF Take, FindBatch, CreateOrder, OrderDone, SelectBatch, Complete, HandlerThrows, Recover
  <1>5. CASE Crash
    BY <1>5 DEF Crash
  <1>6. CASE UNCHANGED vars
    BY <1>6 DEF vars
  <1> QED BY <1>1, <1>2, <1>3, <1>4, <1>5, <1>6 DEF Next, processJob, submitBulk

(* What a step can do to the entity of a handler: it is read, dropped, or  *)
(* gets the result of the handler's own order.                             *)
LEMMA EntityStep ==
  ASSUME CoreInv, [Next]_vars, NEW j \in Job
  PROVE  \/ mem'[j] = mem[j]
         \/ mem'[j] = NewBatch(0, 0) /\ pc'[j] = "idle"
         \/ FindBatch(j) /\ mem'[j] = rows[j[1]]
         \/ OrderDone(j) /\ \E s \in ResultStatus :
              /\ mem'[j] = Count(mem[j], j[2], s)
              /\ s = "SUCCESS" => Created(run(j, runs[j]))
  <1>0. mem \in [Job -> Row]
    BY DEF CoreInv, TypeOK
  <1>1. ASSUME NEW k \in Job, FindBatch(k) 
        PROVE  \/ mem'[j] = mem[j]
               \/ j = k /\ mem'[j] = rows[j[1]]
    <2>1. CASE j = k
      BY <1>0, <1>1, <2>1 DEF FindBatch
    <2>2. CASE j # k
      BY <1>0, <1>1, <2>2 DEF FindBatch
    <2> QED BY <2>1, <2>2
  <1>2. ASSUME NEW k \in Job, OrderDone(k)
        PROVE  \/ mem'[j] = mem[j]
               \/ j = k /\ \E s \in ResultStatus :
                    mem'[j] = Count(mem[j], j[2], s) /\ (s = "SUCCESS" => Created(run(j, runs[j])))
    <2>1. PICK s \in ResultStatus : mem' = [mem EXCEPT ![k] = Count(@, k[2], s)]
                                   /\ (s = "SUCCESS" => Created(run(k, runs[k])))
      BY <1>2 DEF OrderDone, ResultStatus
    <2> QED BY <1>0, <2>1
  <1>3. ASSUME NEW k \in Job, Complete(k) \/ HandlerThrows(k)
        PROVE  \/ mem'[j] = mem[j]
               \/ mem'[j] = NewBatch(0, 0) /\ pc'[j] = "idle"
    <2>1. pc' = [pc EXCEPT ![k] = "idle"] /\ Drop({k})
      BY <1>3 DEF Complete, HandlerThrows
    <2>2. CASE j = k
      BY <2>1, <2>2, QueueTypes DEF Drop
    <2>3. CASE j # k
      BY <2>1, <2>3 DEF Drop
    <2> QED BY <2>2, <2>3
  <1>4. ASSUME Crash PROVE mem'[j] = NewBatch(0, 0) /\ pc'[j] = "idle"
    BY <1>4 DEF Crash, Drop
  <1>5. ASSUME NEW b \in Batch, submitBulk(b) \/ EnqueueFails(b) PROVE mem' = mem
    BY <1>5 DEF submitBulk, SaveBatch, Enqueue, EnqueueFails
  <1>6. ASSUME NEW k \in Job, Take(k) \/ CreateOrder(k) \/ SelectBatch(k) \/ UpdateBatch(k) \/ Recover(k)
        PROVE  mem' = mem
    BY <1>6 DEF Take, CreateOrder, SelectBatch, UpdateBatch, Recover
  <1>7. CASE UNCHANGED vars
    BY <1>7 DEF vars
  <1> QED BY <1>1, <1>2, <1>3, <1>4, <1>5, <1>6, <1>7 DEF Next, processJob

(* Every step keeps the results backed.                                    *)
LEMMA SuccessStep == CoreInv /\ SuccessInv /\ [Next]_vars => SuccessInv'
  <1> SUFFICES ASSUME CoreInv, SuccessInv, [Next]_vars PROVE SuccessInv'
    OBVIOUS
  <1>1. OwnersCarry'
    BY OwnersStep DEF SuccessInv
  <1> DEFINE StillBacked(results, b) ==
               \A i \in DOMAIN results :
                 results[i].status = "SUCCESS" =>
                   /\ results[i].ext \in ExtId
                   /\ owner'[results[i].ext] \in RunsOf(<<b, results[i].ext>>)
                   /\ owner'[results[i].ext] \in booked'
  <1>2. \A results : \A b \in Batch : Backed(results, b) => StillBacked(results, b)
    <2> SUFFICES ASSUME NEW results, NEW b \in Batch, Backed(results, b)
                 PROVE  StillBacked(results, b)
      OBVIOUS
    <2>1. Backed(results, b)'
      BY BackedStable
    <2> QED BY <2>1 DEF Backed
  <1>3. ASSUME NEW b \in Batch PROVE StillBacked(rows'[b].results, b)
    <2> HIDE DEF StillBacked
    <2>1. StillBacked(rows[b].results, b)
      BY <1>2 DEF SuccessInv
    <2>2. ASSUME NEW n \in Nat, NEW m \in Nat PROVE StillBacked(NewBatch(n, m).results, b)
      BY DEF NewBatch, StillBacked
    <2>3. ASSUME NEW j \in Job, j[1] = b
          PROVE  StillBacked(Merge(rows[b], mem[j], dirty[j]).results, b)
      <3>1. StillBacked(mem[j].results, b)
        BY <1>2, <2>3 DEF SuccessInv
      <3> QED BY <2>1, <3>1 DEF Merge
    <2> QED BY <2>1, <2>2, <2>3, RowsStep
  <1>4. ASSUME NEW j \in Job PROVE StillBacked(mem'[j].results, j[1])
    <2> HIDE DEF StillBacked
    <2>0. j[1] \in Batch /\ j[2] \in ExtId /\ j = <<j[1], j[2]>> /\ mem[j] \in Row
      BY JobParts DEF CoreInv, TypeOK
    <2>1. StillBacked(mem[j].results, j[1]) /\ StillBacked(rows[j[1]].results, j[1])
      BY <1>2, <2>0 DEF SuccessInv
    <2>2. StillBacked(NewBatch(0, 0).results, j[1])
      BY DEF NewBatch, StillBacked
    <2>3. ASSUME OrderDone(j), NEW s \in ResultStatus, s = "SUCCESS" => Created(run(j, runs[j]))
          PROVE  StillBacked(Count(mem[j], j[2], s).results, j[1])
      <3>1. /\ Count(mem[j], j[2], s).results = Append(mem[j].results, [ext |-> j[2], status |-> s])
            /\ mem[j].results \in Seq(Result)
        BY <2>0 DEF Count, Row
      <3>2. s = "SUCCESS" => /\ owner'[j[2]] \in RunsOf(<<j[1], j[2]>>)
                             /\ owner'[j[2]] \in booked'
        BY <2>0, <2>3, CreatedOwns, ActiveRun DEF OrderDone, SuccessInv
      <3> DEFINE old == mem[j].results
                 new == Count(mem[j], j[2], s).results
      <3>3. /\ new \in Seq(Result) /\ Len(old) \in Nat /\ Len(new) = Len(old) + 1
            /\ \A i \in DOMAIN old : new[i] = old[i]
            /\ new[Len(old) + 1] = [ext |-> j[2], status |-> s]
        <4>1. [ext |-> j[2], status |-> s] \in Result
          BY <2>0 DEF Result, ResultStatus
        <4> QED BY <3>1, <4>1
      <3>4. \A i \in DOMAIN new : i \in DOMAIN old \/ i = Len(old) + 1
        BY <3>1, <3>3
      <3>5. \A i \in DOMAIN new : new[i].status = "SUCCESS" =>
              /\ new[i].ext \in ExtId
              /\ owner'[new[i].ext] \in RunsOf(<<j[1], new[i].ext>>)
              /\ owner'[new[i].ext] \in booked'
        <4> SUFFICES ASSUME NEW i \in DOMAIN new, new[i].status = "SUCCESS"
                     PROVE  /\ new[i].ext \in ExtId
                            /\ owner'[new[i].ext] \in RunsOf(<<j[1], new[i].ext>>)
                            /\ owner'[new[i].ext] \in booked'
          OBVIOUS
        <4>1. CASE i \in DOMAIN old
          BY <2>1, <3>3, <4>1 DEF StillBacked
        <4>2. CASE i = Len(old) + 1
          <5>1. new[i].ext = j[2] /\ new[i].status = s
            BY <3>3, <4>2
          <5> QED BY <2>0, <3>2, <5>1
        <4> QED BY <3>4, <4>1, <4>2
      <3> QED BY <3>5 DEF StillBacked
    <2> QED BY <2>1, <2>2, <2>3, EntityStep
  <1> QED BY <1>1, <1>3, <1>4 DEF SuccessInv, Backed

(* However a job is re-attempted and whatever batch carries the same       *)
(* order_id, a SUCCESS in the row of a batch is an order it has booked.    *)
THEOREM SuccessBacked == Spec => []SuccessIsBooked
  <1>1. Init => SuccessInv
    <2>1. \A b : Backed(NewBatch(0, 0).results, b)
      BY DEF Backed, NewBatch
    <2> QED BY <2>1, JobParts DEF Init, LedgerInit, SuccessInv, OwnersCarry
  <1>2. SuccessInv => SuccessIsBooked
    BY DEF SuccessInv, Backed, SuccessIsBooked
  <1> QED BY <1>1, <1>2, CoreCorrect, SuccessStep, PTL DEF Spec

-----------------------------------------------------------------------------
(* Counts                                                                  *)

(* A batch that was not submitted has no orders.                           *)
Fresh == \A b \in Batch : api[b] = "none" => valid[b] = << >>

(* A sequence of orders gives a batch no more jobs than it is long.        *)
LEMMA JobsOfOrders ==
  ASSUME NEW b \in Batch, NEW orders \in Payload \cup {<< >>}
  PROVE  LET J == {j \in Job : j[1] = b /\ j[2] \in {orders[i] : i \in DOMAIN orders}}
         IN  IsFiniteSet(J) /\ Cardinality(J) <= Len(orders)
  <1> DEFINE J == {j \in Job : j[1] = b /\ j[2] \in {orders[i] : i \in DOMAIN orders}}
             f == [i \in 1..Len(orders) |-> <<b, orders[i]>>]
  <1>1. /\ Len(orders) \in Nat /\ DOMAIN orders = 1..Len(orders)
        /\ \A i \in DOMAIN orders : orders[i] \in ExtId
    <2>1. orders \in Seq(ExtId)
      BY PayloadLength
    <2> QED BY <2>1
  <1>2. f \in Surjection(1..Len(orders), J)
    <2>1. ASSUME NEW i \in 1..Len(orders) PROVE f[i] \in J
      <3>1. f[i] = <<b, orders[i]>> /\ <<b, orders[i]>> \in Job
        BY <1>1 DEF Job
      <3> QED BY <1>1, <3>1
    <2>2. \A j \in J : \E i \in 1..Len(orders) : f[i] = j
      BY <1>1, JobParts
    <2> HIDE DEF J, f
    <2>3. f \in [1..Len(orders) -> J]
      BY <2>1 DEF f
    <2> QED BY <2>2, <2>3 DEF Surjection
  <1> HIDE DEF J, f
  <1>3. IsFiniteSet(1..Len(orders)) /\ Cardinality(1..Len(orders)) = Len(orders)
    BY <1>1, FS_Interval
  <1>4. IsFiniteSet(J) /\ Cardinality(J) <= Cardinality(1..Len(orders))
    BY <1>2, <1>3, FS_Surjection
  <1> QED BY <1>3, <1>4 DEF J

(* The jobs of a batch are finitely many, no more than its valid orders,   *)
(* before a step and after it.                                             *)
LEMMA JobsFinite ==
  ASSUME NEW b \in Batch
  PROVE  /\ CoreInv => IsFiniteSet(jobsOf(b)) /\ Cardinality(jobsOf(b)) <= Len(valid[b])
         /\ CoreInv' => IsFiniteSet(jobsOf(b)') /\ Cardinality(jobsOf(b)') <= Len(valid'[b])
  <1>1. CoreInv => valid[b] \in Payload \cup {<< >>}
    BY DEF CoreInv, TypeOK
  <1>2. CoreInv' => valid'[b] \in Payload \cup {<< >>}
    BY DEF CoreInv, TypeOK
  <1> QED BY <1>1, <1>2, JobsOfOrders DEF jobsOf, ordersOf

(* Only SaveBatch changes what a batch consists of, once.                  *)
LEMMA ValidStep ==
  ASSUME CoreInv, Fresh, [Next]_vars
  PROVE  /\ Fresh'
         /\ \A b \in Batch : valid'[b] = valid[b] \/ SaveBatch(b)
         /\ \A b \in Batch : jobsOf(b) \subseteq jobsOf(b)'
  <1>0. valid \in [Batch -> Payload \cup {<< >>}] /\ api \in [Batch -> {"none", "saved", "accepted", "refused"}]
    BY DEF CoreInv, TypeOK
  <1>1. ASSUME NEW a \in Batch, SaveBatch(a)
        PROVE  /\ \A b \in Batch \ {a} : valid'[b] = valid[b] /\ api'[b] = api[b]
               /\ api[a] = "none" /\ api'[a] # "none"
    <2>1. PICK orders \in Payload :
            /\ valid' = [valid EXCEPT ![a] = orders]
            /\ api' = [api EXCEPT ![a] = IF Len(orders) > 0 THEN "saved" ELSE "accepted"]
      BY <1>1 DEF SaveBatch
    <2> QED BY <1>0, <1>1, <2>1 DEF SaveBatch
  <1>2. (\E a \in Batch : SaveBatch(a)) \/ (valid' = valid /\ \A b \in Batch : api'[b] = "none" => api[b] = "none")
    <2>1. ASSUME NEW a \in Batch, Enqueue(a) \/ EnqueueFails(a)
          PROVE  valid' = valid /\ \A b \in Batch : api'[b] = "none" => api[b] = "none"
      BY <1>0, <2>1 DEF Enqueue, EnqueueFails
    <2>2. ASSUME NEW j \in Job,
                 \/ Take(j) \/ processJob(j)
                 \/ Complete(j) \/ HandlerThrows(j) \/ Recover(j)
          PROVE  UNCHANGED <<valid, api>>
      BY <2>2 DEF Take, processJob, FindBatch, CreateOrder, OrderDone, SelectBatch, UpdateBatch,
                  Complete, HandlerThrows, Recover
    <2>3. CASE Crash
      BY <1>0, <2>3 DEF Crash
    <2>4. CASE UNCHANGED vars
      BY <2>4 DEF vars
    <2> QED BY <2>1, <2>2, <2>3, <2>4 DEF Next, submitBulk
  <1>3. Fresh'
    BY <1>1, <1>2 DEF Fresh
  <1>4. \A b \in Batch : valid'[b] = valid[b] \/ SaveBatch(b)
    BY <1>1, <1>2
  <1>5. ASSUME NEW b \in Batch PROVE jobsOf(b) \subseteq jobsOf(b)'
    <2>1. CASE valid'[b] = valid[b]
      BY <2>1 DEF jobsOf, ordersOf
    <2>2. CASE SaveBatch(b)
      <3>1. valid[b] = << >>
        BY <1>1, <2>2 DEF Fresh
      <3> QED BY <3>1 DEF jobsOf, ordersOf
    <2> QED BY <1>4, <2>1, <2>2
  <1> QED BY <1>3, <1>4, <1>5

(* The jobs of a batch that created their order.                           *)
CreatedJobs(b) == {j \in jobsOf(b) : \E c \in RunsOf(j) : outcome[c] = "created"}

CountInv == /\ Fresh
            /\ \A b \in Batch : rows[b].successCount <= Cardinality(CreatedJobs(b))
            /\ \A j \in Job : mem[j].successCount <= Cardinality(CreatedJobs(j[1]))

(* The jobs that created their order are finitely many and never fewer.    *)
LEMMA CreatedGrows ==
  ASSUME CoreInv, CoreInv', Fresh, [Next]_vars, NEW b \in Batch
  PROVE  /\ CreatedJobs(b) \subseteq CreatedJobs(b)'
         /\ IsFiniteSet(CreatedJobs(b)) /\ IsFiniteSet(CreatedJobs(b)')
         /\ Cardinality(CreatedJobs(b)) \in Nat /\ Cardinality(CreatedJobs(b)') \in Nat
         /\ Cardinality(CreatedJobs(b)) <= Cardinality(CreatedJobs(b)')
  <1>1. \A c \in Caller : outcome[c] # "none" => outcome'[c] = outcome[c]
    BY LedgerStep, LedgerGrows DEF CoreInv
  <1>2. CreatedJobs(b) \subseteq CreatedJobs(b)'
    <2>1. \A j \in jobsOf(b) : j \in Job /\ \A c \in RunsOf(j) : c \in Caller /\ (c \in RunsOf(j))'
      BY JobParts DEF jobsOf, RunsOf
    <2>2. jobsOf(b) \subseteq jobsOf(b)'
      BY ValidStep
    <2> QED BY <1>1, <2>1, <2>2 DEF CreatedJobs
  <1>3. IsFiniteSet(jobsOf(b)) /\ CreatedJobs(b) \in SUBSET jobsOf(b)
    BY JobsFinite DEF CreatedJobs
  <1>4. IsFiniteSet(jobsOf(b)') /\ CreatedJobs(b)' \in SUBSET jobsOf(b)'
    BY JobsFinite DEF CreatedJobs
  <1>5. IsFiniteSet(CreatedJobs(b)) /\ IsFiniteSet(CreatedJobs(b)')
    BY <1>3, <1>4, FS_Subset
  <1> QED BY <1>2, <1>5, FS_Subset, FS_CardinalityType

(* The run that is told "created" makes its job one that created its       *)
(* order, and no earlier run of the job did.                               *)
LEMMA CreatedAnew ==
  ASSUME CoreInv, CoreInv', Fresh, OwnersCarry, [Next]_vars,
         NEW j \in Job, OrderDone(j), Created(run(j, runs[j]))
  PROVE  Cardinality(CreatedJobs(j[1])) + 1 <= Cardinality(CreatedJobs(j[1])')
  <1> DEFINE b == j[1]
             c == run(j, runs[j])
  <1>1. b \in Batch /\ j[2] \in ExtId /\ c \in Caller /\ c \in RunsOf(j) /\ pc[j] = "create"
    BY JobParts, ActiveRun DEF OrderDone
  <1>2. owner[j[2]] = c /\ outcome[c] = "none" /\ outcome'[c] = "created"
    BY <1>1, CreatedOwns DEF Created, Tell, CoreInv, LedgerInv, LedgerTypeOK
  <1>3. j \notin CreatedJobs(b)
    <2>1. ASSUME NEW d \in RunsOf(j), outcome[d] = "created" PROVE FALSE
      <3>1. d \in Caller /\ d[2] = j[2]
        BY JobParts
      <3>2. PICK e \in ExtId : owner[e] = d
        BY <2>1, <3>1 DEF CoreInv, LedgerInv, Owns
      <3>3. e = j[2]
        BY <3>1, <3>2, LedgerAssumption DEF OwnersCarry
      <3> QED BY <1>2, <2>1, <3>2, <3>3
    <2> QED BY <2>1 DEF CreatedJobs
  <1>4. j \in CreatedJobs(b)'
    <2>1. j \in jobsOf(b)
      BY <1>1 DEF CoreInv, QueueInv, Accounted, jobsOf
    <2>2. j \in jobsOf(b)'
      BY <1>1, <2>1, ValidStep
    <2>3. c \in RunsOf(j)'
      BY <1>1 DEF RunsOf
    <2> QED BY <1>2, <2>2, <2>3 DEF CreatedJobs
  <1>5. /\ CreatedJobs(b) \subseteq CreatedJobs(b)' /\ IsFiniteSet(CreatedJobs(b))
        /\ IsFiniteSet(CreatedJobs(b)') /\ Cardinality(CreatedJobs(b)) \in Nat
    BY <1>1, CreatedGrows
  <1>6. /\ Cardinality(CreatedJobs(b) \cup {j}) = Cardinality(CreatedJobs(b)) + 1
        /\ CreatedJobs(b) \cup {j} \in SUBSET CreatedJobs(b)'
    BY <1>3, <1>4, <1>5, FS_AddElement
  <1>7. Cardinality(CreatedJobs(b) \cup {j}) <= Cardinality(CreatedJobs(b)')
    BY <1>5, <1>6, FS_Subset
  <1> QED BY <1>6, <1>7

(* No step puts a success count above the orders that were created.        *)
LEMMA CountStep ==
  CoreInv /\ CoreInv' /\ OwnersCarry /\ CountInv /\ [Next]_vars => CountInv'
  <1> SUFFICES ASSUME CoreInv, CoreInv', OwnersCarry, CountInv, [Next]_vars PROVE CountInv'
    OBVIOUS
  <1>0. Fresh /\ Fresh'
    BY ValidStep DEF CountInv
  <1>1. ASSUME NEW b \in Batch
        PROVE  /\ Cardinality(CreatedJobs(b)) \in Nat /\ Cardinality(CreatedJobs(b)') \in Nat
               /\ Cardinality(CreatedJobs(b)) <= Cardinality(CreatedJobs(b)')
               /\ rows[b].successCount \in Nat /\ rows[b].successCount <= Cardinality(CreatedJobs(b))
    BY <1>0, CreatedGrows DEF CountInv, CoreInv, TypeOK, Row
  <1>2. ASSUME NEW j \in Job
        PROVE  /\ j[1] \in Batch
               /\ mem[j].successCount \in Nat /\ mem[j].successCount <= Cardinality(CreatedJobs(j[1]))
    BY JobParts DEF CountInv, CoreInv, TypeOK, Row
  <1>3. ASSUME NEW b \in Batch PROVE rows'[b].successCount <= Cardinality(CreatedJobs(b)')
    <2>1. \A n, m : NewBatch(n, m).successCount = 0
      BY DEF NewBatch
    <2>2. ASSUME NEW j \in Job, j[1] = b
          PROVE  Merge(rows[b], mem[j], dirty[j]).successCount <= Cardinality(CreatedJobs(b)')
      BY <1>1, <1>2, <2>2 DEF Merge
    <2>3. CASE rows'[b] = rows[b]
      BY <1>1, <2>3
    <2>4. CASE \E n \in Nat, m \in Nat : rows'[b] = NewBatch(n, m)
      BY <1>1, <2>1, <2>4
    <2>5. CASE \E j \in Job : j[1] = b /\ rows'[b] = Merge(rows[b], mem[j], dirty[j])
      BY <2>2, <2>5
    <2> QED BY <2>3, <2>4, <2>5, RowsStep
  <1>4. ASSUME NEW j \in Job PROVE mem'[j].successCount <= Cardinality(CreatedJobs(j[1])')
    <2>0. /\ j[1] \in Batch /\ Cardinality(CreatedJobs(j[1])) <= Cardinality(CreatedJobs(j[1])')
          /\ Cardinality(CreatedJobs(j[1])) \in Nat /\ Cardinality(CreatedJobs(j[1])') \in Nat
      BY <1>1, <1>2
    <2>1. CASE mem'[j] = mem[j]
      BY <1>2, <2>0, <2>1
    <2>2. CASE mem'[j] = NewBatch(0, 0)
      BY <2>0, <2>2 DEF NewBatch
    <2>3. CASE mem'[j] = rows[j[1]]
      BY <1>1, <2>0, <2>3
    <2>4. ASSUME OrderDone(j), NEW s \in ResultStatus, mem'[j] = Count(mem[j], j[2], s),
                 s = "SUCCESS" => Created(run(j, runs[j]))
          PROVE  mem'[j].successCount <= Cardinality(CreatedJobs(j[1])')
      <3>1. mem'[j].successCount = mem[j].successCount + (IF s = "SUCCESS" THEN 1 ELSE 0)
        BY <2>4 DEF Count
      <3>2. CASE s = "SUCCESS"
        BY <1>0, <1>2, <2>0, <2>4, <3>1, <3>2, CreatedAnew
      <3>3. CASE s # "SUCCESS"
        BY <1>2, <2>0, <3>1, <3>3
      <3> QED BY <3>2, <3>3
    <2> QED BY <2>1, <2>2, <2>3, <2>4, EntityStep
  <1> QED BY <1>0, <1>3, <1>4 DEF CountInv

(* The success count of a batch never exceeds the orders its jobs created, *)
(* however handlers overlap, fail, crash and are run again.                *)
THEOREM SuccessNeverInflated == Spec => []SuccessCountNeverInflated
  <1>1. Init => CountInv /\ SuccessInv
    <2>1. ASSUME Init PROVE CountInv
      <3>1. CoreInv /\ Fresh
        BY <2>1, CoreInit DEF Init, Fresh
      <3>2. ASSUME NEW b \in Batch PROVE 0 <= Cardinality(CreatedJobs(b))
        <4>1. IsFiniteSet(jobsOf(b)) /\ CreatedJobs(b) \in SUBSET jobsOf(b)
          BY <3>1, JobsFinite DEF CreatedJobs
        <4> QED BY <4>1, FS_Subset, FS_CardinalityType
      <3> QED BY <2>1, <3>1, <3>2, JobParts DEF Init, CountInv, NewBatch
    <2>2. \A b : Backed(NewBatch(0, 0).results, b)
      BY DEF Backed, NewBatch
    <2> QED BY <2>1, <2>2, JobParts DEF Init, LedgerInit, SuccessInv, OwnersCarry
  <1>2. SuccessInv => OwnersCarry
    BY DEF SuccessInv
  <1>3. CountInv => SuccessCountNeverInflated
    BY DEF CountInv, SuccessCountNeverInflated, CreatedJobs
  <1> QED BY <1>1, <1>2, <1>3, CoreCorrect, SuccessStep, CountStep, PTL DEF Spec

-----------------------------------------------------------------------------
(* Completion, while the process does not die                              *)

(* The jobs of a batch that have not saved their result.                   *)
NotDone(b) == {j \in jobsOf(b) : ~Done(j)}

(* The pending count of an entity or a row is not below the jobs in S, and *)
(* its status is not ahead of them.                                        *)
Covers(row, S) == /\ Cardinality(S) <= row.pendingCount
                  /\ row.status = "COMPLETED" => S = {}

PendingInv ==
  /\ Fresh
  /\ \A b \in Batch : Covers(rows[b], NotDone(b))
  /\ \A j \in Job : pc[j] = "create" => Covers(mem[j], NotDone(j[1]))
  /\ \A j \in Job : pc[j] \in {"select", "update"} => Covers(mem[j], NotDone(j[1]) \ {j})

(* What covers a finite set covers its subsets.                            *)
LEMMA CoversSubset ==
  ASSUME NEW row \in Row, NEW S, IsFiniteSet(S), NEW T \in SUBSET S, Covers(row, S)
  PROVE  Covers(row, T)
  <1>1. Cardinality(T) <= Cardinality(S) /\ Cardinality(T) \in Nat /\ Cardinality(S) \in Nat
    BY FS_Subset, FS_CardinalityType
  <1> QED BY <1>1 DEF Covers, Row

(* The jobs that are not done are finitely many.                           *)
LEMMA NotDoneFinite ==
  ASSUME NEW b \in Batch
  PROVE  /\ CoreInv => IsFiniteSet(NotDone(b)) /\ NotDone(b) \in SUBSET jobsOf(b)
         /\ CoreInv' => IsFiniteSet(NotDone(b)') /\ NotDone(b)' \in SUBSET jobsOf(b)'
  <1>1. NotDone(b) \in SUBSET jobsOf(b) /\ NotDone(b)' \in SUBSET jobsOf(b)'
    BY DEF NotDone
  <1> QED BY <1>1, JobsFinite, FS_Subset

(* Without a crash a job that is done stays done.                          *)
LEMMA DoneStays ==
  ASSUME CoreInv, [Next]_vars, ~Crash, NEW j \in Job, Done(j)
  PROVE  Done(j)'
  <1>1. Accounted(j) /\ (pc[j] = "ack" \/ (state[j] = "completed" /\ pc[j] = "idle"))
    BY QueueTypes DEF CoreInv, QueueInv, Accounted, Done
  <1>2. ASSUME NEW k \in Job,
               \/ Take(k) \/ FindBatch(k) \/ CreateOrder(k) \/ OrderDone(k) \/ SelectBatch(k)
               \/ UpdateBatch(k) \/ HandlerThrows(k) \/ Recover(k)
        PROVE  /\ k # j
               /\ pc'[j] = pc[j] /\ state'[j] = state[j]
    <2>1. k # j
      <3>1. state[k] \in {"waiting", "stalled"} \/ pc[k] \in {"find", "create", "select", "update"}
        BY <1>2 DEF Take, FindBatch, CreateOrder, OrderDone, SelectBatch, UpdateBatch, HandlerThrows, Recover
      <3>2. state[j] \in {"active", "completed"} /\ pc[j] \in {"ack", "idle"}
        BY <1>1 DEF Accounted
      <3> QED BY <3>1, <3>2
    <2>2. pc' = pc \/ \E w : pc' = [pc EXCEPT ![k] = w]
      BY <1>2 DEF Take, FindBatch, CreateOrder, OrderDone, SelectBatch, UpdateBatch, HandlerThrows, Recover, queue
    <2>3. state' = state \/ \E w : state' = [state EXCEPT ![k] = w]
      BY <1>2 DEF Take, FindBatch, CreateOrder, OrderDone, SelectBatch, UpdateBatch, HandlerThrows, Recover, queue
    <2> QED BY <2>1, <2>2, <2>3, QueueTypes
  <1>3. ASSUME NEW k \in Job, Complete(k) PROVE Done(j)'
    <2>1. pc' = [pc EXCEPT ![k] = "idle"] /\ state' = [state EXCEPT ![k] = "completed"]
      BY <1>3 DEF Complete
    <2>2. CASE j = k
      BY <2>1, <2>2, QueueTypes DEF Done
    <2>3. CASE j # k
      BY <1>1, <2>1, <2>3, QueueTypes DEF Done
    <2> QED BY <2>2, <2>3
  <1>4. ASSUME NEW b \in Batch, Enqueue(b) PROVE pc'[j] = pc[j] /\ state'[j] = state[j]
    <2>1. state[j] # "none" => ~(j[1] = b)
      BY <1>1, <1>4 DEF Accounted, Enqueue
    <2>2. state[j] # "none"
      BY <1>1 DEF Accounted
    <2> QED BY <1>4, <2>1, <2>2 DEF Enqueue
  <1>5. ASSUME NEW b \in Batch, SaveBatch(b) \/ EnqueueFails(b) PROVE pc' = pc /\ state' = state
    BY <1>5 DEF SaveBatch, EnqueueFails, queue
  <1>6. CASE UNCHANGED vars
    BY <1>6 DEF vars, queue, Done
  <1> QED BY <1>1, <1>2, <1>3, <1>4, <1>5, <1>6 DEF Next, processJob, submitBulk, Done

(* Without a crash the jobs of a submitted batch that are not done only    *)
(* get fewer.                                                              *)
LEMMA NotDoneShrinks ==
  ASSUME CoreInv, Fresh, [Next]_vars, ~Crash, NEW b \in Batch, ~SaveBatch(b)
  PROVE  NotDone(b)' \subseteq NotDone(b)
  <1>1. jobsOf(b)' = jobsOf(b)
    BY ValidStep DEF jobsOf, ordersOf
  <1>2. \A j \in jobsOf(b) : j \in Job
    BY DEF jobsOf
  <1> QED BY <1>1, <1>2, DoneStays DEF NotDone

(* The save of a new batch covers all its jobs.                            *)
LEMMA SaveCovers ==
  ASSUME CoreInv, CoreInv', NEW b \in Batch, SaveBatch(b)
  PROVE  Covers(rows'[b], NotDone(b)')
  <1>1. PICK orders \in Payload, m \in 0..MaxInvalid :
          /\ valid' = [valid EXCEPT ![b] = orders]
          /\ rows' = [rows EXCEPT ![b] = NewBatch(Len(orders), m)]
    BY DEF SaveBatch
  <1>2. valid'[b] = orders /\ rows'[b] = NewBatch(Len(orders), m) /\ Len(orders) \in Nat
    BY <1>1, PayloadLength DEF CoreInv, TypeOK
  <1>3. Cardinality(NotDone(b)') <= Len(orders) /\ Cardinality(NotDone(b)') \in Nat /\ IsFiniteSet(NotDone(b)')
    <2>1. IsFiniteSet(jobsOf(b)') /\ Cardinality(jobsOf(b)') <= Len(orders)
      BY <1>2, JobsFinite
    <2>2. Cardinality(NotDone(b)') <= Cardinality(jobsOf(b)')
      BY <2>1, NotDoneFinite, FS_Subset
    <2>3. IsFiniteSet(NotDone(b)')
      BY NotDoneFinite
    <2> QED BY <1>2, <2>1, <2>2, <2>3, FS_CardinalityType
  <1>4. rows'[b].pendingCount = Len(orders)
        /\ rows'[b].status = IF Len(orders) > 0 THEN "PROCESSING" ELSE "COMPLETED"
    BY <1>2 DEF NewBatch
  <1>5. Len(orders) = 0 => NotDone(b)' = {}
    BY <1>2, <1>3, FS_EmptySet
  <1> QED BY <1>2, <1>3, <1>4, <1>5 DEF Covers

(* Counting a job that was among those covered leaves the others covered.  *)
LEMMA CountCovers ==
  ASSUME NEW row \in Row, NEW S, IsFiniteSet(S), NEW j \in S, Covers(row, S), NEW e, NEW s
  PROVE  Covers(Count(row, e, s), S \ {j})
  <1>1. /\ Cardinality(S) \in Nat /\ Cardinality(S \ {j}) = Cardinality(S) - 1
        /\ IsFiniteSet(S \ {j}) /\ Cardinality(S \ {j}) \in Nat
    BY FS_RemoveElement, FS_CardinalityType
  <1>2. row.pendingCount \in Nat /\ row.pendingCount >= 1 /\ row.status # "COMPLETED"
    BY <1>1 DEF Covers, Row
  <1>3. Count(row, e, s).pendingCount = row.pendingCount - 1
        /\ Count(row, e, s).status = IF row.pendingCount - 1 = 0 THEN "COMPLETED" ELSE row.status
    BY <1>2 DEF Count
  <1>4. Cardinality(S \ {j}) = 0 => S \ {j} = {}
    BY <1>1, FS_EmptySet
  <1> QED BY <1>1, <1>2, <1>3, <1>4 DEF Covers

(* A save writes columns that cover what both sides cover.                 *)
LEMMA MergeCovers ==
  ASSUME NEW old \in Row, NEW new \in Row, NEW cols, NEW S, Covers(old, S), Covers(new, S)
  PROVE  Covers(Merge(old, new, cols), S)
  BY DEF Covers, Merge, Row

(* What a handler holds while it creates the order, and while it saves.    *)
LEMMA HandlerStep ==
  ASSUME CoreInv, [Next]_vars, NEW j \in Job
  PROVE  /\ pc'[j] = "create" =>
              \/ FindBatch(j) /\ mem'[j] = rows[j[1]]
              \/ pc[j] = "create" /\ mem'[j] = mem[j]
         /\ pc'[j] = "select" =>
              \/ OrderDone(j) /\ \E s \in ResultStatus : mem'[j] = Count(mem[j], j[2], s)
              \/ pc[j] = "select" /\ mem'[j] = mem[j]
         /\ pc'[j] = "update" =>
              \/ SelectBatch(j) /\ mem'[j] = mem[j]
              \/ pc[j] = "update" /\ mem'[j] = mem[j]
  <1>0. pc \in [Job -> {"idle", "find", "create", "select", "update", "ack"}] /\ mem \in [Job -> Row]
    BY QueueTypes DEF CoreInv, TypeOK
  <1>1. ASSUME NEW k \in Job, FindBatch(k)
        PROVE  /\ k = j => pc'[j] = "create" /\ mem'[j] = rows[j[1]]
               /\ k # j => pc'[j] = pc[j] /\ mem'[j] = mem[j]
    BY <1>0, <1>1 DEF FindBatch
  <1>2. ASSUME NEW k \in Job, OrderDone(k)
        PROVE  /\ k = j => pc'[j] = "select" /\ \E s \in ResultStatus : mem'[j] = Count(mem[j], j[2], s)
               /\ k # j => pc'[j] = pc[j] /\ mem'[j] = mem[j]
    <2>1. PICK s \in ResultStatus : mem' = [mem EXCEPT ![k] = Count(@, k[2], s)]
      BY <1>2 DEF OrderDone, ResultStatus
    <2>2. pc' = [pc EXCEPT ![k] = "select"]
      BY <1>2 DEF OrderDone
    <2> QED BY <1>0, <2>1, <2>2
  <1>3. ASSUME NEW k \in Job, SelectBatch(k)
        PROVE  mem' = mem /\ pc'[j] = IF k = j THEN "update" ELSE pc[j]
    BY <1>0, <1>3 DEF SelectBatch
  <1>4. ASSUME NEW k \in Job, UpdateBatch(k)
        PROVE  mem' = mem /\ pc'[j] = IF k = j THEN "ack" ELSE pc[j]
    BY <1>0, <1>4 DEF UpdateBatch
  <1>5. ASSUME NEW k \in Job, Take(k)
        PROVE  mem' = mem /\ pc'[j] = IF k = j THEN "find" ELSE pc[j]
    BY <1>0, <1>5 DEF Take
  <1>6. ASSUME NEW k \in Job, Complete(k) \/ HandlerThrows(k)
        PROVE  /\ k = j => pc'[j] = "idle"
               /\ k # j => pc'[j] = pc[j] /\ mem'[j] = mem[j]
    BY <1>0, <1>6 DEF Complete, HandlerThrows, Drop
  <1>7. ASSUME Crash PROVE pc'[j] = "idle"
    BY <1>7 DEF Crash
  <1>8. ASSUME NEW k \in Job, CreateOrder(k) \/ Recover(k) PROVE pc' = pc /\ mem' = mem
    BY <1>8 DEF CreateOrder, Recover, queue
  <1>9. ASSUME NEW b \in Batch, submitBulk(b) \/ EnqueueFails(b) PROVE pc' = pc /\ mem' = mem
    BY <1>9 DEF submitBulk, SaveBatch, Enqueue, EnqueueFails, queue
  <1>10. CASE UNCHANGED vars
    BY <1>10 DEF vars, queue
  <1> QED BY <1>1, <1>2, <1>3, <1>4, <1>5, <1>6, <1>7, <1>8, <1>9, <1>10 DEF Next, processJob

(* While the process lives, no step makes a batch look further than it is. *)
LEMMA PendingStep ==
  CoreInv /\ CoreInv' /\ PendingInv /\ [Next]_vars /\ ~Crash => PendingInv'
  <1> SUFFICES ASSUME CoreInv, CoreInv', PendingInv, [Next]_vars, ~Crash PROVE PendingInv'
    OBVIOUS
  <1>0. Fresh /\ Fresh'
    BY ValidStep DEF PendingInv
  <1>1. ASSUME NEW b \in Batch
        PROVE  IsFiniteSet(NotDone(b)) /\ rows[b] \in Row /\ Covers(rows[b], NotDone(b))
    BY <1>1, NotDoneFinite DEF PendingInv, CoreInv, TypeOK
  <1>2. ASSUME NEW b \in Batch PROVE Covers(rows'[b], NotDone(b)')
    <2>1. CASE SaveBatch(b)
      BY <2>1, SaveCovers
    <2>2. CASE ~SaveBatch(b) /\ rows'[b] = rows[b]
      BY <1>0, <1>1, <2>2, NotDoneShrinks, CoversSubset
    <2>3. ASSUME ~SaveBatch(b), NEW j \in Job, j[1] = b, UpdateBatch(j),
                 rows'[b] = Merge(rows[b], mem[j], dirty[j])
          PROVE  Covers(rows'[b], NotDone(b)')
      <3>1. pc[j] = "update" /\ pc'[j] = "ack" /\ mem[j] \in Row
        BY <2>3, QueueTypes DEF UpdateBatch, CoreInv, TypeOK
      <3>2. NotDone(b)' \in SUBSET (NotDone(b) \ {j})
        <4>1. NotDone(b)' \subseteq NotDone(b)
          BY <1>0, <2>3, NotDoneShrinks
        <4>2. j \notin NotDone(b)'
          BY <3>1 DEF NotDone, Done
        <4> QED BY <4>1, <4>2
      <3>3. IsFiniteSet(NotDone(b) \ {j}) /\ NotDone(b) \ {j} \in SUBSET NotDone(b)
        BY <1>1, FS_Subset
      <3>4. Covers(rows[b], NotDone(b) \ {j}) /\ Covers(mem[j], NotDone(b) \ {j})
        BY <1>1, <2>3, <3>1, <3>3, CoversSubset DEF PendingInv
      <3>5. Covers(rows'[b], NotDone(b) \ {j}) /\ rows'[b] \in Row
        BY <1>1, <2>3, <3>1, <3>4, MergeCovers, MergeType
      <3> QED BY <3>2, <3>3, <3>5, CoversSubset
    <2> QED BY <2>1, <2>2, <2>3, RowsStep
  <1>3. ASSUME NEW j \in Job
        PROVE  /\ pc'[j] = "create" => Covers(mem'[j], NotDone(j[1])')
               /\ pc'[j] \in {"select", "update"} => Covers(mem'[j], NotDone(j[1])' \ {j})
    <2> DEFINE b == j[1]
    <2>1. b \in Batch /\ mem[j] \in Row
      BY JobParts DEF CoreInv, TypeOK
    <2>2. pc[j] # "idle" => j \in jobsOf(b) /\ api[b] = "accepted" /\ NotDone(b)' \subseteq NotDone(b)
      <3>1. pc[j] # "idle" => j \in jobsOf(b) /\ api[b] = "accepted"
        BY DEF CoreInv, QueueInv, Accounted, jobsOf
      <3>2. api[b] = "accepted" => ~SaveBatch(b)
        BY DEF SaveBatch
      <3> QED BY <1>0, <2>1, <3>1, <3>2, NotDoneShrinks
    <2>3. ASSUME pc'[j] = "create" PROVE Covers(mem'[j], NotDone(b)')
      <3>1. pc[j] # "idle" /\ Covers(mem'[j], NotDone(b)) /\ mem'[j] \in Row
        BY <1>1, <2>1, <2>3, HandlerStep DEF FindBatch, PendingInv
      <3> QED BY <1>1, <2>1, <2>2, <3>1, CoversSubset
    <2>4. ASSUME pc'[j] \in {"select", "update"} PROVE Covers(mem'[j], NotDone(b)' \ {j})
      <3>1. pc[j] # "idle" /\ Covers(mem'[j], NotDone(b) \ {j}) /\ mem'[j] \in Row
        <4>1. CASE pc[j] \in {"select", "update"} /\ mem'[j] = mem[j]
          BY <2>1, <4>1 DEF PendingInv
        <4>2. ASSUME OrderDone(j), NEW s \in ResultStatus, mem'[j] = Count(mem[j], j[2], s)
              PROVE  pc[j] # "idle" /\ Covers(mem'[j], NotDone(b) \ {j}) /\ mem'[j] \in Row
          <5>1. pc[j] = "create" /\ state[j] = "active"
            BY <4>2 DEF OrderDone, CoreInv, QueueInv, Accounted
          <5>2. j \in NotDone(b) /\ Covers(mem[j], NotDone(b))
            BY <2>2, <5>1 DEF NotDone, Done, PendingInv
          <5> QED BY <1>1, <2>1, <4>2, <5>1, <5>2, CountCovers, CountType, JobParts
        <4> QED BY <2>4, <4>1, <4>2, HandlerStep DEF SelectBatch
      <3>2. NotDone(b)' \ {j} \in SUBSET (NotDone(b) \ {j}) /\ IsFiniteSet(NotDone(b) \ {j})
        BY <1>1, <2>1, <2>2, <3>1, FS_RemoveElement
      <3> QED BY <3>1, <3>2, CoversSubset
    <2> QED BY <2>3, <2>4
  <1> QED BY <1>0, <1>2, <1>3 DEF PendingInv

(* Before anything is submitted nothing is pending.                        *)
LEMMA PendingInit == Init => PendingInv
  <1> SUFFICES ASSUME Init PROVE PendingInv
    OBVIOUS
  <1>1. \A b \in Batch : NotDone(b) = {} /\ rows[b] = NewBatch(0, 0)
    BY DEF Init, NotDone, jobsOf, ordersOf
  <1>2. Covers(NewBatch(0, 0), {})
    BY FS_EmptySet DEF NewBatch, Covers
  <1>3. Fresh /\ \A j \in Job : pc[j] = "idle"
    BY DEF Init, Fresh
  <1> QED BY <1>1, <1>2, <1>3 DEF PendingInv

(* The counters of faults and crashes are naturals.                        *)
LEMMA Counters ==
  ASSUME CoreInv
  PROVE  /\ faults \in Nat /\ crashes \in Nat
         /\ \A j \in Job : made[j] \in Nat /\ stalls[j] \in Nat /\ runs[j] \in Nat
  <1>1. faults \in 0..MaxFaults /\ crashes \in 0..MaxCrashes /\ MaxFaults \in Nat /\ MaxCrashes \in Nat
    BY BoundAssumption DEF CoreInv, TypeOK
  <1> QED BY <1>1, QueueTypes

(* Until the process first dies, a batch is COMPLETED only when all its    *)
(* jobs have saved their results, for any concurrency and any faults.      *)
THEOREM CompletedDone == Spec => []CompletedMeansDone
  <1> DEFINE Inv == crashes = 0 => PendingInv
  <1>1. CoreInv /\ [Next]_vars /\ crashes' = 0 => crashes = 0 /\ ~Crash
    <2> SUFFICES ASSUME CoreInv, [Next]_vars, crashes' = 0 PROVE crashes = 0 /\ ~Crash
      OBVIOUS
    <2>1. crashes \in Nat /\ (Crash => crashes' = crashes + 1)
      BY Counters DEF Crash
    <2>2. ~Crash
      BY <2>1
    <2>3. crashes' = crashes
      BY <2>2 DEF Next, submitBulk, SaveBatch, Enqueue, EnqueueFails, Take, processJob, FindBatch, CreateOrder, OrderDone,
                  SelectBatch, UpdateBatch, Complete, HandlerThrows, Recover, vars
    <2> QED BY <2>2, <2>3
  <1>2. CoreInv /\ CoreInv' /\ Inv /\ [Next]_vars => Inv'
    BY <1>1, PendingStep
  <1>3. Init => Inv
    BY PendingInit
  <1>4. Inv => CompletedMeansDone
    BY DEF PendingInv, Covers, NotDone, CompletedMeansDone
  <1> HIDE DEF Inv
  <1> QED BY <1>2, <1>3, <1>4, CoreCorrect, PTL DEF Spec

-----------------------------------------------------------------------------
(* The tally, one job at a time and while the process does not die         *)

OrdersCounted(b) == rows[b].successCount + rows[b].failureCount

(* Nobody else runs, so what a handler holds is the row as it is.          *)
SerialInv ==
  /\ Active = {} \/ \E j \in Job : Active = {j}
  /\ \A b \in Batch : api[b] # "none" =>
       /\ OrdersCounted(b) + rows[b].pendingCount = Len(valid[b]) + invalid[b]
       /\ rows[b].status = "COMPLETED" <=> rows[b].pendingCount = 0
  /\ \A j \in Job : pc[j] = "create" => mem[j] = rows[j[1]]
  /\ \A j \in Job : pc[j] \in {"select", "update"} =>
       \E s \in ResultStatus : mem[j] = Count(rows[j[1]], j[2], s)
  /\ \A j \in Job : pc[j] = "update" => dirty[j] = Differ(mem[j], rows[j[1]])

(* A save of all columns that differ makes the row the entity.             *)
LEMMA SaveAll ==
  ASSUME NEW old \in Row, NEW new \in Row
  PROVE  Merge(old, new, Differ(new, old)) = new
  <1>1. /\ "successCount" \notin Differ(new, old) => old.successCount = new.successCount
        /\ "failureCount" \notin Differ(new, old) => old.failureCount = new.failureCount
        /\ "pendingCount" \notin Differ(new, old) => old.pendingCount = new.pendingCount
        /\ "status" \notin Differ(new, old) => old.status = new.status
        /\ "results" \notin Differ(new, old) => old.results = new.results
    BY DEF Differ, Column
  <1> HIDE DEF Row
  <1>2. Merge(old, new, Differ(new, old)) =
          [successCount |-> new.successCount, failureCount |-> new.failureCount,
           pendingCount |-> new.pendingCount, status |-> new.status, results |-> new.results]
    BY <1>1 DEF Merge
  <1> QED BY <1>2 DEF Row

(* The handlers that run are those of the active jobs.                     *)
LEMMA OnlyOneRuns ==
  ASSUME CoreInv, SerialInv, NEW j \in Job, NEW k \in Job, pc[j] # "idle", pc[k] # "idle"
  PROVE  j = k
  <1>1. j \in Active /\ k \in Active
    BY DEF CoreInv, QueueInv, Accounted, Active
  <1> QED BY <1>1 DEF SerialInv

(* With concurrency 1 the worker takes a job only when no other is active. *)
LEMMA ActiveStep ==
  ASSUME concurrency = 1, CoreInv, SerialInv, [Next]_vars, ~Crash
  PROVE  Active' = {} \/ \E j \in Job : Active' = {j}
  <1>1. ASSUME NEW j \in Job, Take(j) PROVE Active' = {j}
    <2>1. IsFiniteSet(Active) /\ Cardinality(Active) < 1
      BY <1>1, FS_EmptySet, FS_Singleton DEF SerialInv, Take
    <2>2. Active = {}
      BY <2>1, FS_EmptySet, FS_CardinalityType
    <2>3. state' = [state EXCEPT ![j] = "active"]
      BY <1>1 DEF Take
    <2> QED BY <2>2, <2>3, QueueTypes DEF Active
  <1>2. (\A k \in Job : state'[k] = "active" => state[k] = "active") => Active' \subseteq Active
    BY DEF Active
  <1>3. ASSUME NEW j \in Job, Complete(j) \/ HandlerThrows(j) \/ Recover(j)
        PROVE  \A k \in Job : state'[k] = "active" => state[k] = "active"
    <2>1. \E w \in {"completed", "waiting", "failed"} : state' = [state EXCEPT ![j] = w]
      BY <1>3 DEF Complete, HandlerThrows, Recover
    <2> QED BY <2>1, QueueTypes
  <1>4. ASSUME NEW b \in Batch, Enqueue(b)
        PROVE  \A k \in Job : state'[k] = "active" => state[k] = "active"
    BY <1>4 DEF Enqueue
  <1>5. ASSUME NEW b \in Batch, SaveBatch(b) \/ EnqueueFails(b) PROVE state' = state
    BY <1>5 DEF SaveBatch, EnqueueFails, queue
  <1>6. ASSUME NEW j \in Job, processJob(j) PROVE state' = state
    BY <1>6 DEF processJob, FindBatch, CreateOrder, OrderDone, SelectBatch, UpdateBatch, queue
  <1>7. UNCHANGED vars => state' = state
    BY DEF vars, queue
  <1>8. (\E j \in Job : Take(j)) \/ Active' \subseteq Active
    BY <1>2, <1>3, <1>4, <1>5, <1>6, <1>7 DEF Next, submitBulk
  <1> QED BY <1>1, <1>8 DEF SerialInv

(* The columns a handler will write are those that differ when it saves.   *)
LEMMA DirtyStep ==
  ASSUME CoreInv, [Next]_vars, NEW j \in Job, pc'[j] = "update"
  PROVE  \/ SelectBatch(j) /\ dirty'[j] = Differ(mem[j], rows[j[1]])
         \/ pc[j] = "update" /\ dirty'[j] = dirty[j]
  <1>0. pc \in [Job -> {"idle", "find", "create", "select", "update", "ack"}] /\ dirty \in [Job -> SUBSET Column]
    BY QueueTypes DEF CoreInv, TypeOK
  <1>1. ASSUME NEW k \in Job, SelectBatch(k)
        PROVE  /\ k = j => dirty'[j] = Differ(mem[j], rows[j[1]])
               /\ k # j => pc'[j] = pc[j] /\ dirty'[j] = dirty[j]
    BY <1>0, <1>1 DEF SelectBatch
  <1>2. ASSUME NEW k \in Job, UpdateBatch(k)
        PROVE  /\ k = j => pc'[j] = "ack"
               /\ k # j => pc'[j] = pc[j] /\ dirty'[j] = dirty[j]
    BY <1>0, <1>2 DEF UpdateBatch
  <1>3. ASSUME NEW k \in Job, Complete(k) \/ HandlerThrows(k)
        PROVE  /\ k = j => pc'[j] = "idle"
               /\ k # j => pc'[j] = pc[j] /\ dirty'[j] = dirty[j]
    BY <1>0, <1>3 DEF Complete, HandlerThrows, Drop
  <1>4. ASSUME NEW k \in Job, FindBatch(k) \/ OrderDone(k) \/ Take(k)
        PROVE  dirty' = dirty /\ \E w \in {"create", "select", "find"} : pc' = [pc EXCEPT ![k] = w]
    BY <1>4 DEF FindBatch, OrderDone, Take
  <1>5. ASSUME Crash PROVE pc'[j] = "idle"
    BY <1>5 DEF Crash
  <1>6. ASSUME NEW k \in Job, CreateOrder(k) \/ Recover(k) PROVE pc' = pc /\ dirty' = dirty
    BY <1>6 DEF CreateOrder, Recover, queue
  <1>7. ASSUME NEW b \in Batch, submitBulk(b) \/ EnqueueFails(b) PROVE pc' = pc /\ dirty' = dirty
    BY <1>7 DEF submitBulk, SaveBatch, Enqueue, EnqueueFails, queue
  <1>8. CASE UNCHANGED vars
    BY <1>8 DEF vars, queue
  <1>9. ASSUME NEW k \in Job, FindBatch(k) \/ OrderDone(k) \/ Take(k) PROVE pc[j] = "update" /\ dirty'[j] = dirty[j]
    BY <1>0, <1>4, <1>9
  <1> QED BY <1>1, <1>2, <1>3, <1>5, <1>6, <1>7, <1>8, <1>9 DEF Next, processJob

(* A save counts exactly one order more on its batch, and touches no other *)
(* row.                                                                    *)
LEMMA SerialSave ==
  ASSUME CoreInv, PendingInv, SerialInv, NEW j \in Job, UpdateBatch(j)
  PROVE  LET b == j[1] IN
         /\ OrdersCounted(b)' = OrdersCounted(b) + 1
         /\ rows[b].pendingCount > 0
         /\ rows'[b].pendingCount = rows[b].pendingCount - 1
         /\ rows[b].status = "COMPLETED" <=> rows[b].pendingCount = 0
         /\ rows'[b].status = "COMPLETED" <=> rows'[b].pendingCount = 0
         /\ api[b] = "accepted" /\ UNCHANGED <<api, valid, invalid>>
         /\ \A a \in Batch : a # b => rows'[a] = rows[a]
  <1> DEFINE b == j[1]
  <1>1. /\ b \in Batch /\ rows \in [Batch -> Row] /\ mem[j] \in Row /\ rows[b] \in Row
        /\ pc[j] = "update" /\ j \in jobsOf(b) /\ api[b] = "accepted"
        /\ rows' = [rows EXCEPT ![b] = Merge(rows[b], mem[j], dirty[j])]
        /\ UNCHANGED <<api, valid, invalid>>
    BY JobParts DEF UpdateBatch, CoreInv, TypeOK, QueueInv, Accounted, jobsOf
  <1>2. PICK s \in ResultStatus : mem[j] = Count(rows[b], j[2], s)
    BY <1>1 DEF SerialInv
  <1>3. rows'[b] = Count(rows[b], j[2], s)
    <2>1. Merge(rows[b], mem[j], dirty[j]) = mem[j]
      BY <1>1, SaveAll DEF SerialInv
    <2> QED BY <1>1, <1>2, <2>1
  <1>4. rows[b].pendingCount > 0
    <2>1. j \in NotDone(b)
      <3>1. state[j] = "active"
        BY <1>1 DEF CoreInv, QueueInv, Accounted
      <3> QED BY <1>1, <3>1 DEF NotDone, Done
    <2>2. IsFiniteSet(NotDone(b)) /\ Covers(rows[b], NotDone(b))
      BY <1>1, NotDoneFinite DEF PendingInv
    <2>3. Cardinality(NotDone(b)) \in Nat /\ Cardinality(NotDone(b)) # 0
      BY <2>1, <2>2, FS_CardinalityType, FS_EmptySet
    <2> QED BY <1>1, <2>2, <2>3 DEF Covers, Row
  <1>5. /\ rows[b].successCount \in Nat /\ rows[b].failureCount \in Nat /\ rows[b].pendingCount \in Nat
        /\ rows[b].status = "COMPLETED" <=> rows[b].pendingCount = 0
    BY <1>1 DEF SerialInv, Row
  <1>6. /\ rows'[b].successCount + rows'[b].failureCount = rows[b].successCount + rows[b].failureCount + 1
        /\ rows'[b].pendingCount = rows[b].pendingCount - 1
        /\ rows'[b].status = IF rows[b].pendingCount - 1 = 0 THEN "COMPLETED" ELSE rows[b].status
    BY <1>3, <1>4, <1>5 DEF Count
  <1>7. rows'[b].status = "COMPLETED" <=> rows'[b].pendingCount = 0
    BY <1>4, <1>5, <1>6
  <1>8. \A a \in Batch : a # b => rows'[a] = rows[a]
    BY <1>1
  <1> QED BY <1>1, <1>4, <1>5, <1>6, <1>7, <1>8 DEF OrdersCounted

(* What submitBulk saves adds up.                                          *)
LEMMA SerialSubmit ==
  ASSUME CoreInv, NEW b \in Batch, SaveBatch(b)
  PROVE  /\ api[b] = "none" /\ api'[b] # "none"
         /\ Len(valid'[b]) \in Nat /\ invalid'[b] \in Nat /\ Len(valid'[b]) + invalid'[b] > 0
         /\ OrdersCounted(b)' = invalid'[b] /\ rows'[b].pendingCount = Len(valid'[b])
         /\ rows'[b].status = "COMPLETED" <=> rows'[b].pendingCount = 0
         /\ \A a \in Batch : a # b => /\ rows'[a] = rows[a] /\ api'[a] = api[a]
                                      /\ valid'[a] = valid[a] /\ invalid'[a] = invalid[a]
  <1>1. PICK orders \in Payload, m \in 0..MaxInvalid :
          /\ bulkCreateOrders(Len(orders) + m)
          /\ valid' = [valid EXCEPT ![b] = orders]
          /\ invalid' = [invalid EXCEPT ![b] = m]
          /\ rows' = [rows EXCEPT ![b] = NewBatch(Len(orders), m)]
          /\ api' = [api EXCEPT ![b] = IF Len(orders) > 0 THEN "saved" ELSE "accepted"]
    BY DEF SaveBatch
  <1>2. /\ valid'[b] = orders /\ invalid'[b] = m /\ rows'[b] = NewBatch(Len(orders), m)
        /\ api'[b] # "none"
        /\ \A a \in Batch : a # b => /\ rows'[a] = rows[a] /\ api'[a] = api[a]
                                     /\ valid'[a] = valid[a] /\ invalid'[a] = invalid[a]
    BY <1>1 DEF CoreInv, TypeOK
  <1>3. Len(orders) \in Nat /\ m \in Nat /\ Len(orders) + m > 0
    <2>1. Len(orders) \in Nat /\ m \in Nat
      BY PayloadLength, BoundAssumption
    <2>2. Len(orders) + m \in 1..100
      BY <1>1 DEF bulkCreateOrders
    <2>3. \A n \in 1..100 : n > 0
      OBVIOUS
    <2> QED BY <2>1, <2>2, <2>3
  <1>4. /\ NewBatch(Len(orders), m).successCount + NewBatch(Len(orders), m).failureCount = m
        /\ NewBatch(Len(orders), m).pendingCount = Len(orders)
        /\ NewBatch(Len(orders), m).status = IF Len(orders) > 0 THEN "PROCESSING" ELSE "COMPLETED"
    BY <1>3 DEF NewBatch
  <1>5. api[b] = "none"
    BY DEF SaveBatch
  <1> QED BY <1>2, <1>3, <1>4, <1>5 DEF OrdersCounted

(* No other step changes what a batch consists of or its row.              *)
LEMMA SerialQuiet ==
  ASSUME CoreInv, [Next]_vars,
         \A b \in Batch : ~SaveBatch(b), \A j \in Job : ~UpdateBatch(j)
  PROVE  /\ UNCHANGED <<valid, invalid, rows>>
         /\ \A b \in Batch : api'[b] = "none" <=> api[b] = "none"
  <1>1. api \in [Batch -> {"none", "saved", "accepted", "refused"}]
    BY DEF CoreInv, TypeOK
  <1>2. ASSUME NEW b \in Batch, Enqueue(b) \/ EnqueueFails(b)
        PROVE  /\ UNCHANGED <<valid, invalid, rows>>
               /\ \A a \in Batch : api'[a] = "none" <=> api[a] = "none"
    BY <1>1, <1>2 DEF Enqueue, EnqueueFails
  <1>3. ASSUME NEW j \in Job,
               \/ Take(j) \/ FindBatch(j) \/ CreateOrder(j) \/ OrderDone(j) \/ SelectBatch(j)
               \/ Complete(j) \/ HandlerThrows(j) \/ Recover(j)
        PROVE  UNCHANGED <<valid, invalid, rows, api>>
    BY <1>3 DEF Take, FindBatch, CreateOrder, OrderDone, SelectBatch, Complete, HandlerThrows, Recover
  <1>4. CASE Crash
    BY <1>1, <1>4 DEF Crash
  <1>5. CASE UNCHANGED vars
    BY <1>5 DEF vars
  <1> QED BY <1>2, <1>3, <1>4, <1>5 DEF Next, submitBulk, processJob

(* One job at a time, and without crashes, the row of a batch adds up.     *)
LEMMA SerialStep ==
  ASSUME concurrency = 1
  PROVE  CoreInv /\ PendingInv /\ SerialInv /\ [Next]_vars /\ ~Crash => SerialInv'
  <1> SUFFICES ASSUME CoreInv, PendingInv, SerialInv, [Next]_vars, ~Crash PROVE SerialInv'
    OBVIOUS
  <1>1. Active' = {} \/ \E j \in Job : Active' = {j}
    BY ActiveStep
  <1>2. ASSUME NEW b \in Batch, api'[b] # "none"
        PROVE  /\ OrdersCounted(b)' + rows'[b].pendingCount = Len(valid'[b]) + invalid'[b]
               /\ rows'[b].status = "COMPLETED" <=> rows'[b].pendingCount = 0
    <2>0. /\ rows[b].successCount \in Nat /\ rows[b].failureCount \in Nat /\ rows[b].pendingCount \in Nat
          /\ OrdersCounted(b) \in Nat
      BY DEF CoreInv, TypeOK, Row, OrdersCounted
    <2>1. ASSUME api[b] # "none", UNCHANGED <<rows[b], valid[b], invalid[b]>>
          PROVE  /\ OrdersCounted(b)' + rows'[b].pendingCount = Len(valid'[b]) + invalid'[b]
                 /\ rows'[b].status = "COMPLETED" <=> rows'[b].pendingCount = 0
      BY <2>1 DEF SerialInv, OrdersCounted
    <2>2. ASSUME NEW a \in Batch, SaveBatch(a)
          PROVE  /\ OrdersCounted(b)' + rows'[b].pendingCount = Len(valid'[b]) + invalid'[b]
                 /\ rows'[b].status = "COMPLETED" <=> rows'[b].pendingCount = 0
      <3>1. CASE a = b
        BY <2>2, <3>1, SerialSubmit
      <3>2. CASE a # b
        BY <1>2, <2>1, <2>2, <3>2, SerialSubmit
      <3> QED BY <3>1, <3>2
    <2>3. ASSUME NEW j \in Job, UpdateBatch(j)
          PROVE  /\ OrdersCounted(b)' + rows'[b].pendingCount = Len(valid'[b]) + invalid'[b]
                 /\ rows'[b].status = "COMPLETED" <=> rows'[b].pendingCount = 0
      <3>1. CASE j[1] = b
        <4>1. OrdersCounted(b) + rows[b].pendingCount = Len(valid[b]) + invalid[b]
          BY <1>2, <2>3, <3>1, SerialSave DEF SerialInv
        <4>2. /\ OrdersCounted(b)' = OrdersCounted(b) + 1
              /\ rows'[b].pendingCount = rows[b].pendingCount - 1
              /\ rows'[b].status = "COMPLETED" <=> rows'[b].pendingCount = 0
              /\ valid' = valid /\ invalid' = invalid
          BY <2>3, <3>1, SerialSave
        <4> QED BY <2>0, <4>1, <4>2
      <3>2. CASE j[1] # b
        BY <1>2, <2>1, <2>3, <3>2, SerialSave
      <3> QED BY <3>1, <3>2
    <2>4. CASE (\A a \in Batch : ~SaveBatch(a)) /\ (\A j \in Job : ~UpdateBatch(j))
      BY <1>2, <2>1, <2>4, SerialQuiet
    <2> QED BY <2>2, <2>3, <2>4
  <1>3. ASSUME NEW j \in Job, pc'[j] \in {"create", "select", "update"}
        PROVE  pc[j] # "idle" /\ rows'[j[1]] = rows[j[1]]
    <2>1. pc[j] # "idle"
      BY <1>3, HandlerStep DEF FindBatch, OrderDone, SelectBatch
    <2>2. j[1] \in Batch /\ api[j[1]] = "accepted"
      BY <2>1, JobParts DEF CoreInv, QueueInv, Accounted
    <2>3. ASSUME NEW k \in Job, UpdateBatch(k) PROVE FALSE
      <3>1. k = j
        BY <2>1, <2>3, OnlyOneRuns DEF UpdateBatch
      <3>2. pc' = [pc EXCEPT ![k] = "ack"]
        BY <2>3 DEF UpdateBatch
      <3> QED BY <1>3, <3>1, <3>2, QueueTypes
    <2>4. ~SaveBatch(j[1])
      BY <2>2 DEF SaveBatch
    <2> QED BY <2>1, <2>2, <2>3, <2>4, RowsStep
  <1>4. ASSUME NEW j \in Job, pc'[j] = "create" PROVE mem'[j] = rows'[j[1]]
    BY <1>3, <1>4, HandlerStep DEF SerialInv
  <1>5. ASSUME NEW j \in Job, pc'[j] = "select"
        PROVE  \E s \in ResultStatus : mem'[j] = Count(rows'[j[1]], j[2], s)
    <2>1. rows'[j[1]] = rows[j[1]]
      BY <1>3, <1>5
    <2>2. CASE pc[j] = "select" /\ mem'[j] = mem[j]
      BY <2>1, <2>2 DEF SerialInv
    <2>3. ASSUME OrderDone(j), NEW s \in ResultStatus, mem'[j] = Count(mem[j], j[2], s)
          PROVE  \E t \in ResultStatus : mem'[j] = Count(rows'[j[1]], j[2], t)
      BY <2>1, <2>3 DEF SerialInv, OrderDone
    <2> QED BY <1>5, <2>2, <2>3, HandlerStep
  <1>6. ASSUME NEW j \in Job, pc'[j] = "update"
        PROVE  /\ \E s \in ResultStatus : mem'[j] = Count(rows'[j[1]], j[2], s)
               /\ dirty'[j] = Differ(mem'[j], rows'[j[1]])
    <2>1. rows'[j[1]] = rows[j[1]]
      BY <1>3, <1>6
    <2>2. mem'[j] = mem[j] /\ pc[j] \in {"select", "update"}
      BY <1>6, HandlerStep DEF SelectBatch
    <2>3. dirty'[j] = Differ(mem[j], rows[j[1]])
      BY <1>6, DirtyStep DEF SerialInv
    <2> QED BY <2>1, <2>2, <2>3 DEF SerialInv
  <1> QED BY <1>1, <1>2, <1>4, <1>5, <1>6 DEF SerialInv

(* Before anything is submitted no job is active.                          *)
LEMMA SerialInit == Init => SerialInv
  BY DEF Init, SerialInv, Active

(* A step of the service is a step of the tally, or none.                  *)
LEMMA TallyStep ==
  CoreInv /\ PendingInv /\ SerialInv /\ [Next]_vars => [Tally!TallyNext]_(Tally!tally)
  <1> SUFFICES ASSUME CoreInv, PendingInv, SerialInv, [Next]_vars
               PROVE  [Tally!TallyNext]_(Tally!tally)
    OBVIOUS
  <1> DEFINE total     == [b \in Batch |-> IF api[b] = "none" THEN 0 ELSE Len(valid[b]) + invalid[b]]
             counted   == [b \in Batch |-> rows[b].successCount + rows[b].failureCount]
             completed == [b \in Batch |-> api[b] # "none" /\ rows[b].status = "COMPLETED"]
  <1>1. ASSUME NEW b \in Batch, SaveBatch(b) PROVE Tally!Submit(b)
    <2>1. /\ total[b] = 0 /\ total'[b] = Len(valid'[b]) + invalid'[b] /\ counted'[b] = invalid'[b]
          /\ completed'[b] <=> Len(valid'[b]) = 0
      BY <1>1, SerialSubmit DEF OrdersCounted
    <2>2. \A a \in Batch : a # b => /\ total'[a] = total[a] /\ counted'[a] = counted[a]
                                    /\ completed'[a] = completed[a]
      BY <1>1, SerialSubmit
    <2>3. total'[b] \in Nat \ {0} /\ counted'[b] \in 0..total'[b] /\ (completed'[b] <=> counted'[b] = total'[b])
      BY <1>1, <2>1, SerialSubmit
    <2>4. total' = [total EXCEPT ![b] = total'[b]]
      BY <2>2
    <2>5. counted' = [counted EXCEPT ![b] = counted'[b]]
      BY <2>2
    <2>6. completed' = [completed EXCEPT ![b] = (counted'[b] = total'[b])]
      <3>1. \A a \in Batch : completed'[a] = IF a = b THEN counted'[b] = total'[b] ELSE completed[a]
        BY <2>2, <2>3
      <3> QED BY <3>1
    <2> QED BY <2>1, <2>3, <2>4, <2>5, <2>6 DEF Tally!Submit
  <1>2. ASSUME NEW j \in Job, UpdateBatch(j) PROVE Tally!CountOne(j[1])
    <2> DEFINE b == j[1]
    <2>0. b \in Batch /\ rows[b].successCount \in Nat /\ rows[b].failureCount \in Nat
          /\ rows[b].pendingCount \in Nat /\ Len(valid[b]) \in Nat /\ invalid[b] \in Nat
      BY JobParts, PayloadLength, BoundAssumption DEF CoreInv, TypeOK, Row
    <2>1. counted[b] + rows[b].pendingCount = total[b]
      BY <1>2, <2>0, SerialSave DEF SerialInv, OrdersCounted
    <2>2. /\ counted[b] < total[b] /\ counted'[b] = counted[b] + 1 /\ total' = total
          /\ counted[b] \in Nat /\ total[b] \in Nat
      <3>1. /\ OrdersCounted(b)' = OrdersCounted(b) + 1 /\ rows[b].pendingCount > 0
            /\ UNCHANGED <<api, valid, invalid>> /\ api[b] = "accepted"
        BY <1>2, SerialSave
      <3>2. counted[b] = OrdersCounted(b) /\ counted'[b] = OrdersCounted(b)'
        BY <2>0 DEF OrdersCounted
      <3>3. total' = total /\ total[b] = Len(valid[b]) + invalid[b]
        BY <2>0, <3>1
      <3>4. OrdersCounted(b) \in Nat
        BY <2>0 DEF OrdersCounted
      <3> HIDE DEF total, counted
      <3> QED BY <2>0, <2>1, <3>1, <3>2, <3>3, <3>4
    <2>3. completed'[b] = (counted[b] + 1 = total[b])
      <3>1. /\ rows'[b].status = "COMPLETED" <=> rows[b].pendingCount - 1 = 0
            /\ api'[b] # "none"
        BY <1>2, SerialSave
      <3>2. completed'[b] = (rows'[b].status = "COMPLETED")
        BY <2>0, <3>1
      <3>3. rows[b].pendingCount - 1 = 0 <=> counted[b] + 1 = total[b]
        BY <2>0, <2>1, <2>2
      <3> QED BY <3>1, <3>2, <3>3
    <2>4. \A a \in Batch : a # b => counted'[a] = counted[a] /\ completed'[a] = completed[a]
      BY <1>2, SerialSave
    <2>5. counted' = [counted EXCEPT ![b] = counted[b] + 1]
      BY <2>2, <2>4
    <2>6. completed' = [completed EXCEPT ![b] = (counted[b] + 1 = total[b])]
      <3>1. \A a \in Batch : completed'[a] = IF a = b THEN counted[b] + 1 = total[b] ELSE completed[a]
        BY <2>3, <2>4
      <3> QED BY <3>1
    <2> QED BY <2>2, <2>5, <2>6 DEF Tally!CountOne
  <1>3. CASE (\A b \in Batch : ~SaveBatch(b)) /\ (\A j \in Job : ~UpdateBatch(j))
    <2>1. total' = total /\ counted' = counted /\ completed' = completed
      BY <1>3, SerialQuiet
    <2> QED BY <2>1 DEF Tally!tally
  <1> QED BY <1>1, <1>2, <1>3, JobParts DEF Tally!TallyNext

(* With one job at a time, and while the process does not die, the queue,  *)
(* the worker and the table implement the tally.                           *)
THEOREM ImplementsTally ==
  ASSUME concurrency = 1, MaxCrashes = 0
  PROVE  Spec => RefinesTally
  <1>1. CoreInv => ~Crash
    BY BoundAssumption DEF CoreInv, TypeOK, Crash
  <1>2. Init => Tally!TallyInit
    <2> SUFFICES ASSUME Init PROVE Tally!TallyInit
      OBVIOUS
    <2>1. \A b \in Batch : api[b] = "none" /\ rows[b].successCount + rows[b].failureCount = 0
      BY DEF Init, NewBatch
    <2> QED BY <2>1 DEF Tally!TallyInit
  <1> QED BY <1>1, <1>2, CoreCorrect, PendingInit, PendingStep, SerialInit, SerialStep, TallyStep, PTL
          DEF Spec, RefinesTally, Tally!TallySpec

(* The row of a batch counts as pending its jobs that are not done, and    *)
(* besides them the orders that got no job of their own.                   *)
ExactInv ==
  \A b \in Batch : api[b] # "none" =>
    Cardinality(NotDone(b)) + Len(valid[b]) = Cardinality(jobsOf(b)) + rows[b].pendingCount

(* There are no more jobs than orders, and as many if the orders differ.   *)
LEMMA JobsExact ==
  ASSUME CoreInv, NEW b \in Batch
  PROVE  /\ IsFiniteSet(jobsOf(b)) /\ Cardinality(jobsOf(b)) \in Nat /\ Len(valid[b]) \in Nat
         /\ Cardinality(jobsOf(b)) = Len(valid[b]) <=> EachOnce(b)
  <1> DEFINE orders == valid[b]
             J == jobsOf(b)
             f == [i \in 1..Len(orders) |-> <<b, orders[i]>>]
  <1>1. /\ Len(orders) \in Nat /\ DOMAIN orders = 1..Len(orders)
        /\ \A i \in DOMAIN orders : orders[i] \in ExtId
    <2>1. orders \in Payload \cup {<< >>}
      BY DEF CoreInv, TypeOK
    <2>2. orders \in Seq(ExtId)
      BY <2>1, PayloadLength
    <2> QED BY <2>2
  <1>2. \A i \in 1..Len(orders) : f[i] = <<b, orders[i]>> /\ f[i] \in J
    <2> SUFFICES ASSUME NEW i \in 1..Len(orders) PROVE f[i] = <<b, orders[i]>> /\ f[i] \in J
      OBVIOUS
    <2>1. f[i] = <<b, orders[i]>> /\ <<b, orders[i]>> \in Job
      BY <1>1 DEF Job
    <2> QED BY <1>1, <2>1 DEF jobsOf, ordersOf
  <1>3. \A j \in J : \E i \in 1..Len(orders) : f[i] = j
    BY <1>1, JobParts DEF jobsOf, ordersOf
  <1>4. f \in [1..Len(orders) -> J]
    <2> HIDE DEF J
    <2> QED BY <1>2
  <1>5. IsInjective(f) <=> EachOnce(b)
    <2>1. \A i, k \in 1..Len(orders) : f[i] = f[k] <=> orders[i] = orders[k]
      BY <1>2
    <2>2. DOMAIN f = 1..Len(orders)
      OBVIOUS
    <2> HIDE DEF f
    <2> QED BY <1>1, <2>1, <2>2 DEF IsInjective, EachOnce
  <1> HIDE DEF J, f
  <1>6. f \in Surjection(1..Len(orders), J)
    BY <1>3, <1>4 DEF Surjection
  <1>7. IsFiniteSet(1..Len(orders)) /\ Cardinality(1..Len(orders)) = Len(orders)
    BY <1>1, FS_Interval
  <1>8. IsFiniteSet(J) /\ (Cardinality(J) = Cardinality(1..Len(orders)) <=> f \in Injection(1..Len(orders), J))
    BY <1>6, <1>7, FS_Surjection
  <1>9. f \in Injection(1..Len(orders), J) <=> IsInjective(f)
    BY <1>4 DEF Injection
  <1> QED BY <1>1, <1>5, <1>7, <1>8, <1>9, FS_CardinalityType DEF J

(* A job becomes done by its save, and by nothing else.                    *)
LEMMA DoneBySave ==
  ASSUME CoreInv, [Next]_vars, NEW j \in Job, ~Done(j), Done(j)'
  PROVE  UpdateBatch(j)
  <1>0. /\ pc \in [Job -> {"idle", "find", "create", "select", "update", "ack"}]
        /\ state \in [Job -> {"none", "waiting", "active", "stalled", "completed", "failed"}]
    BY QueueTypes
  <1>1. pc[j] # "ack" /\ state[j] # "completed" /\ (pc'[j] = "ack" \/ state'[j] = "completed")
    BY DEF Done
  <1>2. ASSUME NEW k \in Job, UpdateBatch(k) PROVE k = j
    <2>1. state' = state /\ pc' = [pc EXCEPT ![k] = "ack"]
      BY <1>2 DEF UpdateBatch
    <2> QED BY <1>0, <1>1, <2>1
  <1>3. ASSUME NEW k \in Job, Complete(k) PROVE FALSE
    <2>1. pc[k] = "ack" /\ pc' = [pc EXCEPT ![k] = "idle"] /\ state' = [state EXCEPT ![k] = "completed"]
      BY <1>3 DEF Complete
    <2> QED BY <1>0, <1>1, <2>1
  <1>4. ASSUME NEW k \in Job,
               \/ Take(k) \/ FindBatch(k) \/ OrderDone(k) \/ SelectBatch(k)
               \/ HandlerThrows(k) \/ Recover(k) \/ CreateOrder(k)
        PROVE  FALSE
    <2>1. pc' = pc \/ \E w \in {"idle", "find", "create", "select", "update"} : pc' = [pc EXCEPT ![k] = w]
      BY <1>4 DEF Take, FindBatch, CreateOrder, OrderDone, SelectBatch, HandlerThrows, Recover, queue
    <2>2. state' = state \/ \E w \in {"active", "waiting", "failed"} : state' = [state EXCEPT ![k] = w]
      BY <1>4 DEF Take, FindBatch, CreateOrder, OrderDone, SelectBatch, HandlerThrows, Recover, queue
    <2> QED BY <1>0, <1>1, <2>1, <2>2
  <1>5. ASSUME NEW b \in Batch, submitBulk(b) \/ EnqueueFails(b) PROVE FALSE
    <2>1. pc' = pc /\ state'[j] \in {state[j], "waiting"}
      BY <1>5 DEF submitBulk, SaveBatch, Enqueue, EnqueueFails, queue
    <2> QED BY <1>1, <2>1
  <1>6. ~Crash
    BY <1>1 DEF Crash
  <1>7. ~UNCHANGED vars
    BY <1>1 DEF vars, queue
  <1> QED BY <1>2, <1>3, <1>4, <1>5, <1>6, <1>7 DEF Next, processJob

(* One job at a time, and without crashes, the pending count is exact.     *)
LEMMA ExactStep ==
  CoreInv /\ CoreInv' /\ PendingInv /\ SerialInv /\ ExactInv /\ [Next]_vars /\ ~Crash => ExactInv'
  <1> SUFFICES ASSUME CoreInv, CoreInv', PendingInv, SerialInv, ExactInv, [Next]_vars, ~Crash,
                      NEW b \in Batch, api'[b] # "none"
               PROVE  Cardinality(NotDone(b)') + Len(valid'[b]) = Cardinality(jobsOf(b)') + rows'[b].pendingCount
    BY DEF ExactInv
  <1>0. Fresh /\ valid \in [Batch -> Payload \cup {<< >>}]
    BY DEF PendingInv, CoreInv, TypeOK
  <1>1. CASE SaveBatch(b)
    <2>3. NotDone(b)' = jobsOf(b)'
      <3>1. ASSUME NEW j \in Job, j[1] = b PROVE ~Done(j)'
        <4>1. state[j] = "none" /\ pc[j] = "idle"
          BY <1>1, <3>1, QueueTypes DEF SaveBatch, CoreInv, QueueInv, Accounted
        <4> QED BY <1>1, <4>1 DEF SaveBatch, queue, Done
      <3> QED BY <3>1 DEF NotDone, jobsOf
    <2> QED BY <1>1, <2>3, SerialSubmit
  <1>2. ASSUME ~SaveBatch(b) PROVE /\ jobsOf(b)' = jobsOf(b) /\ valid'[b] = valid[b]
                                   /\ api[b] # "none" /\ NotDone(b)' \subseteq NotDone(b)
    <2>1. jobsOf(b)' = jobsOf(b) /\ valid'[b] = valid[b] /\ NotDone(b)' \subseteq NotDone(b)
      BY <1>0, <1>2, ValidStep, NotDoneShrinks DEF jobsOf, ordersOf
    <2>2. ASSUME NEW a \in Batch, SaveBatch(a) PROVE api'[b] = api[b]
      BY <1>2, <2>2, SerialSubmit
    <2>3. ASSUME NEW j \in Job, UpdateBatch(j) PROVE api' = api
      BY <2>3 DEF UpdateBatch
    <2> QED BY <2>1, <2>2, <2>3, SerialQuiet
  <1>3. ASSUME NEW j \in Job, j[1] = b, UpdateBatch(j)
        PROVE  Cardinality(NotDone(b)') + Len(valid'[b]) = Cardinality(jobsOf(b)') + rows'[b].pendingCount
    <2>1. ~SaveBatch(b)
      BY <1>3, SerialSave DEF SaveBatch
    <2>2. /\ pc[j] = "update" /\ state[j] = "active" /\ j \in jobsOf(b) /\ pc'[j] = "ack"
      BY <1>3, QueueTypes DEF UpdateBatch, CoreInv, QueueInv, Accounted, jobsOf
    <2>3. j \in NotDone(b) /\ j \notin NotDone(b)'
      BY <2>2 DEF NotDone, Done
    <2>4. ASSUME NEW k \in NotDone(b), k # j PROVE k \in NotDone(b)'
      <3>1. k \in Job /\ ~Done(k) /\ k \in jobsOf(b)'
        BY <1>2, <2>1 DEF NotDone, jobsOf
      <3>2. ~UpdateBatch(k)
        BY <1>3, <2>4, <3>1, OnlyOneRuns DEF UpdateBatch
      <3> QED BY <3>1, <3>2, DoneBySave DEF NotDone
    <2>5. NotDone(b)' = NotDone(b) \ {j}
      BY <1>2, <2>1, <2>3, <2>4
    <2>6. IsFiniteSet(NotDone(b)) /\ Cardinality(NotDone(b)) \in Nat
      BY NotDoneFinite, FS_CardinalityType
    <2>7. Cardinality(NotDone(b)') = Cardinality(NotDone(b)) - 1
      BY <2>3, <2>5, <2>6, FS_RemoveElement
    <2>8. /\ rows'[b].pendingCount = rows[b].pendingCount - 1 /\ rows[b].pendingCount \in Nat
          /\ jobsOf(b)' = jobsOf(b) /\ valid'[b] = valid[b]
      BY <1>2, <1>3, <2>1, SerialSave DEF CoreInv, TypeOK, Row
    <2>9. Cardinality(NotDone(b)) + Len(valid[b]) = Cardinality(jobsOf(b)) + rows[b].pendingCount
      BY <1>2, <2>1 DEF ExactInv
    <2>10. Cardinality(jobsOf(b)) \in Nat /\ Len(valid[b]) \in Nat
      BY JobsExact
    <2> QED BY <2>6, <2>7, <2>8, <2>9, <2>10
  <1>4. CASE ~SaveBatch(b) /\ \A j \in Job : j[1] = b => ~UpdateBatch(j)
    <2>1. rows'[b] = rows[b]
      BY <1>4, RowsStep
    <2>2. NotDone(b) \subseteq NotDone(b)'
      <3>1. \A k \in NotDone(b) : k \in Job /\ k[1] = b /\ ~Done(k) /\ k \in jobsOf(b)'
        BY <1>2, <1>4 DEF NotDone, jobsOf
      <3> QED BY <1>4, <3>1, DoneBySave DEF NotDone
    <2>3. NotDone(b)' = NotDone(b)
      BY <1>2, <1>4, <2>2
    <2> QED BY <1>2, <1>4, <2>1, <2>3 DEF ExactInv
  <1> QED BY <1>1, <1>3, <1>4

(* Before anything is submitted the counts agree.                          *)
LEMMA ExactInit == Init => ExactInv
  BY DEF Init, ExactInv

(* With one job at a time and no crash, a batch whose jobs are done has    *)
(* counted every one of them and every invalid order, whatever saves       *)
(* failed on the way.                                                      *)
THEOREM EveryJobCounted ==
  ASSUME concurrency = 1, MaxCrashes = 0
  PROVE  Spec => []CountsEveryJob
  <1>1. CoreInv => ~Crash
    BY BoundAssumption DEF CoreInv, TypeOK, Crash
  <1>2. Init => ExactInv
    BY ExactInit
  <1>3. CoreInv /\ SerialInv /\ ExactInv => CountsEveryJob
    <2> SUFFICES ASSUME CoreInv, SerialInv, ExactInv, NEW b \in Batch, api[b] = "accepted",
                        \A j \in jobsOf(b) : state[j] = "completed"
                 PROVE  rows[b].successCount + rows[b].failureCount = Cardinality(jobsOf(b)) + invalid[b]
      BY DEF CountsEveryJob
    <2>1. NotDone(b) = {}
      BY DEF NotDone, Done
    <2>2. Len(valid[b]) = Cardinality(jobsOf(b)) + rows[b].pendingCount /\ Cardinality(jobsOf(b)) \in Nat
      <3>1. 0 + Len(valid[b]) = Cardinality(jobsOf(b)) + rows[b].pendingCount
        BY <2>1, FS_EmptySet DEF ExactInv
      <3> QED BY <3>1, JobsExact
    <2>3. /\ rows[b].successCount \in Nat /\ rows[b].failureCount \in Nat /\ rows[b].pendingCount \in Nat
          /\ invalid[b] \in Nat
      BY BoundAssumption DEF CoreInv, TypeOK, Row
    <2>4. rows[b].successCount + rows[b].failureCount + rows[b].pendingCount = Len(valid[b]) + invalid[b]
      BY DEF SerialInv, OrdersCounted
    <2>5. Len(valid[b]) \in Nat
      BY JobsExact
    <2> DEFINE success == rows[b].successCount
               failure == rows[b].failureCount
               pending == rows[b].pendingCount
               orders  == Len(valid[b])
               jobs    == Cardinality(jobsOf(b))
               bad     == invalid[b]
    <2>6. /\ {success, failure, pending, orders, jobs, bad} \subseteq Nat
          /\ orders = jobs + pending /\ success + failure + pending = orders + bad
      BY <2>2, <2>3, <2>4, <2>5
    <2>7. SUFFICES success + failure = jobs + bad
      OBVIOUS
    <2> HIDE DEF success, failure, pending, orders, jobs, bad
    <2> QED BY <2>6
  <1> QED BY <1>1, <1>2, <1>3, CoreCorrect, PendingInit, PendingStep, SerialInit, SerialStep, ExactStep, PTL
          DEF Spec

(* With one job at a time and no crash, the jobs of a batch complete it    *)
(* unless an order_id stands twice in its request: then it stays           *)
(* PROCESSING for good (batch.service.ts:94, 112).                         *)
THEOREM OnlyRepeatsStayProcessing ==
  ASSUME concurrency = 1, MaxCrashes = 0
  PROVE  Spec => []CompletesUnlessRepeated
  <1>1. CoreInv => ~Crash
    BY BoundAssumption DEF CoreInv, TypeOK, Crash
  <1>2. CoreInv /\ SerialInv /\ ExactInv => CompletesUnlessRepeated
    <2> SUFFICES ASSUME CoreInv, SerialInv, ExactInv, NEW b \in Batch, api[b] = "accepted",
                        \A j \in jobsOf(b) : state[j] = "completed"
                 PROVE  rows[b].status = "COMPLETED" <=> EachOnce(b)
      BY DEF CompletesUnlessRepeated
    <2>1. NotDone(b) = {}
      BY DEF NotDone, Done
    <2>2. Len(valid[b]) = Cardinality(jobsOf(b)) + rows[b].pendingCount
      <3>1. 0 + Len(valid[b]) = Cardinality(jobsOf(b)) + rows[b].pendingCount
        BY <2>1, FS_EmptySet DEF ExactInv
      <3> QED BY <3>1, JobsExact
    <2>3. /\ Cardinality(jobsOf(b)) \in Nat /\ rows[b].pendingCount \in Nat
          /\ Cardinality(jobsOf(b)) = Len(valid[b]) <=> EachOnce(b)
      BY JobsExact DEF CoreInv, TypeOK, Row
    <2>4. rows[b].status = "COMPLETED" <=> rows[b].pendingCount = 0
      BY DEF SerialInv
    <2> QED BY <2>2, <2>3, <2>4
  <1> QED BY <1>1, <1>2, ExactInit, CoreCorrect, PendingInit, PendingStep, SerialInit, SerialStep, ExactStep, PTL
          DEF Spec

-----------------------------------------------------------------------------
(* The ends of jobs: what is left of the argument that every job ends, and *)
(* with it every batch, when fairness and ENABLED are taken away.          *)

(* Failed attempts are paid for by faults, stalls by crashes, and a job is *)
(* given up only when it has used up the one or the other.                 *)
Spent(j) == /\ made[j] <= faults
            /\ stalls[j] <= crashes
            /\ state[j] = "stalled" => stalls[j] < crashes
            /\ state[j] = "failed" => made[j] >= attempts \/ stalls[j] > maxStalledCount

SpentInv == \A j \in Job : Spent(j)

\* the orders of an accepted batch are in the queue
QueuedInv == \A b \in Batch : api[b] = "accepted" => \A j \in jobsOf(b) : state[j] # "none"

(* A step that leaves a job's counters alone keeps its accounts, unless it *)
(* gives the job up.                                                       *)
LEMMA SpentFrame ==
  ASSUME NEW j \in Job, Spent(j), made'[j] = made[j], stalls'[j] = stalls[j],
         state'[j] \in {state[j], "waiting", "active", "completed"},
         faults \in Nat, crashes \in Nat, made[j] \in Nat, stalls[j] \in Nat,
         faults' \in {faults, faults + 1}, crashes' \in {crashes, crashes + 1}
  PROVE  Spent(j)'
  BY DEF Spent, attempts, maxStalledCount

(* Every step keeps the accounts of faults and crashes.                    *)
LEMMA SpentStep == CoreInv /\ SpentInv /\ [Next]_vars => SpentInv'
  <1> SUFFICES ASSUME CoreInv, SpentInv, [Next]_vars, NEW k \in Job PROVE Spent(k)'
    BY DEF SpentInv
  <1>0. /\ Spent(k)
        /\ faults \in Nat /\ crashes \in Nat /\ made[k] \in Nat /\ stalls[k] \in Nat
    BY Counters DEF SpentInv
  <1>1. ASSUME NEW j \in Job, Take(j) \/ Complete(j) PROVE Spent(k)'
    <2>1. /\ UNCHANGED <<made, stalls, faults, crashes>>
          /\ state'[k] \in {state[k], "active", "completed"}
      BY <1>1, QueueTypes DEF Take, Complete
    <2> QED BY <1>0, <2>1, SpentFrame
  <1>2. ASSUME NEW j \in Job, HandlerThrows(j) PROVE Spent(k)'
    <2>1. /\ faults' = faults + 1 /\ made' = [made EXCEPT ![j] = @ + 1]
          /\ state' = [state EXCEPT ![j] = IF made'[j] < attempts THEN "waiting" ELSE "failed"]
          /\ UNCHANGED <<stalls, crashes>>
      BY <1>2 DEF HandlerThrows
    <2>2. CASE k = j
      <3>1. made'[k] = made[k] + 1 /\ (state'[k] = IF made'[k] < attempts THEN "waiting" ELSE "failed")
        BY <2>1, <2>2, QueueTypes
      <3> QED BY <1>0, <2>1, <3>1 DEF Spent, attempts, maxStalledCount
    <2>3. CASE k # j
      <3>1. made'[k] = made[k] /\ state'[k] = state[k]
        BY <2>1, <2>3, QueueTypes
      <3> QED BY <1>0, <2>1, <3>1, SpentFrame
    <2> QED BY <2>2, <2>3
  <1>3. ASSUME NEW j \in Job, Recover(j) PROVE Spent(k)'
    <2>1. /\ state[j] = "stalled" /\ stalls' = [stalls EXCEPT ![j] = @ + 1]
          /\ state' = [state EXCEPT ![j] = IF stalls'[j] > maxStalledCount THEN "failed" ELSE "waiting"]
          /\ UNCHANGED <<made, faults, crashes>>
      BY <1>3 DEF Recover
    <2>2. CASE k = j
      <3>1. stalls'[k] = stalls[k] + 1 /\ (state'[k] = IF stalls'[k] > maxStalledCount THEN "failed" ELSE "waiting")
        BY <2>1, <2>2, QueueTypes
      <3> QED BY <1>0, <2>1, <2>2, <3>1 DEF Spent, attempts, maxStalledCount
    <2>3. CASE k # j
      <3>1. stalls'[k] = stalls[k] /\ state'[k] = state[k]
        BY <2>1, <2>3, QueueTypes
      <3> QED BY <1>0, <2>1, <3>1, SpentFrame
    <2> QED BY <2>2, <2>3
  <1>4. CASE Crash
    <2>1. /\ crashes' = crashes + 1 /\ UNCHANGED <<made, stalls, faults>>
          /\ state'[k] = IF state[k] = "active" THEN "stalled" ELSE state[k]
      BY <1>4 DEF Crash
    <2> QED BY <1>0, <2>1 DEF Spent, attempts, maxStalledCount
  <1>5. ASSUME NEW j \in Job, processJob(j) PROVE Spent(k)'
    <2>1. UNCHANGED <<state, made, stalls, faults, crashes>>
      BY <1>5 DEF processJob, FindBatch, CreateOrder, OrderDone, SelectBatch, UpdateBatch, queue
    <2> QED BY <1>0, <2>1, SpentFrame
  <1>6. ASSUME NEW b \in Batch, submitBulk(b) \/ EnqueueFails(b) PROVE Spent(k)'
    <2>1. /\ UNCHANGED <<made, stalls, crashes>> /\ faults' \in {faults, faults + 1}
          /\ state'[k] \in {state[k], "waiting"}
      BY <1>6 DEF submitBulk, SaveBatch, Enqueue, EnqueueFails, queue
    <2> QED BY <1>0, <2>1, SpentFrame
  <1>7. CASE UNCHANGED vars
    <2>1. UNCHANGED <<state, made, stalls, faults, crashes>>
      BY <1>7 DEF vars, queue
    <2> QED BY <1>0, <2>1, SpentFrame
  <1> QED BY <1>1, <1>2, <1>3, <1>4, <1>5, <1>6, <1>7 DEF Next

(* A job that is in the queue stays known to it.                           *)
LEMMA StaysQueued ==
  ASSUME CoreInv, [Next]_vars, NEW j \in Job, state[j] # "none"
  PROVE  state'[j] # "none"
  <1>1. ASSUME NEW k \in Job, Take(k) \/ Complete(k) \/ HandlerThrows(k) \/ Recover(k) PROVE state'[j] # "none"
    <2>1. \E w \in {"active", "completed", "waiting", "failed"} : state' = [state EXCEPT ![k] = w]
      BY <1>1 DEF Take, Complete, HandlerThrows, Recover
    <2> QED BY <2>1, QueueTypes
  <1>2. ASSUME NEW k \in Job, processJob(k) PROVE state' = state
    BY <1>2 DEF processJob, FindBatch, CreateOrder, OrderDone, SelectBatch, UpdateBatch, queue
  <1>3. ASSUME NEW b \in Batch, submitBulk(b) \/ EnqueueFails(b) PROVE state'[j] \in {state[j], "waiting"}
    BY <1>3 DEF submitBulk, SaveBatch, Enqueue, EnqueueFails, queue
  <1>4. CASE Crash
    BY <1>4 DEF Crash
  <1>5. CASE UNCHANGED vars
    BY <1>5 DEF vars, queue
  <1> QED BY <1>1, <1>2, <1>3, <1>4, <1>5 DEF Next

(* A batch becomes accepted when its orders are put into the queue, or at  *)
(* once when it has none.                                                  *)
LEMMA QueuedStep == CoreInv /\ Fresh /\ QueuedInv /\ [Next]_vars => QueuedInv'
  <1> SUFFICES ASSUME CoreInv, Fresh, QueuedInv, [Next]_vars, NEW b \in Batch, api'[b] = "accepted",
                      NEW j \in Job, j \in jobsOf(b)'
               PROVE  state'[j] # "none"
    BY DEF QueuedInv, jobsOf
  <1>0. api \in [Batch -> {"none", "saved", "accepted", "refused"}] /\ valid \in [Batch -> Payload \cup {<< >>}]
    BY DEF CoreInv, TypeOK
  <1>1. CASE SaveBatch(b)
    <2>1. PICK orders \in Payload : /\ valid' = [valid EXCEPT ![b] = orders]
                                    /\ api' = [api EXCEPT ![b] = IF Len(orders) > 0 THEN "saved" ELSE "accepted"]
      BY <1>1 DEF SaveBatch
    <2>2. valid'[b] = orders /\ ~(Len(orders) > 0) /\ orders \in Seq(ExtId)
      BY <1>0, <2>1, PayloadLength
    <2>3. orders = << >>
      BY <2>2
    <2> QED BY <2>2, <2>3 DEF jobsOf, ordersOf
  <1>2. CASE Enqueue(b)
    <2>1. j[1] = b /\ j[2] \in ordersOf(b)
      BY <1>2 DEF Enqueue, jobsOf, ordersOf
    <2> QED BY <1>2, <2>1 DEF Enqueue
  <1>3. CASE ~SaveBatch(b) /\ ~Enqueue(b)
    <2>1. api[b] = "accepted"
      <3>1. ASSUME NEW a \in Batch, SaveBatch(a) PROVE a # b /\ \E w : api' = [api EXCEPT ![a] = w]
        BY <1>3, <3>1 DEF SaveBatch
      <3>2. ASSUME NEW a \in Batch, Enqueue(a) PROVE a # b /\ api' = [api EXCEPT ![a] = "accepted"]
        BY <1>3, <3>2 DEF Enqueue
      <3>3. ASSUME NEW a \in Batch, EnqueueFails(a) PROVE api' = [api EXCEPT ![a] = "refused"]
        BY <3>3 DEF EnqueueFails
      <3>4. ASSUME Crash PROVE api'[b] = IF api[b] = "saved" THEN "refused" ELSE api[b]
        BY <3>4 DEF Crash
      <3>5. ASSUME NEW k \in Job, Take(k) \/ processJob(k) \/ Complete(k) \/ HandlerThrows(k) \/ Recover(k)
            PROVE  api' = api
        BY <3>5 DEF Take, processJob, FindBatch, CreateOrder, OrderDone, SelectBatch, UpdateBatch, Complete,
             HandlerThrows, Recover
      <3>6. CASE UNCHANGED vars
        BY <3>6 DEF vars
      <3> QED BY <1>0, <3>1, <3>2, <3>3, <3>4, <3>5, <3>6 DEF Next, submitBulk
    <2>2. jobsOf(b)' = jobsOf(b)
      BY <1>3, ValidStep DEF jobsOf, ordersOf
    <2>3. state[j] # "none"
      BY <2>1, <2>2 DEF QueuedInv
    <2> QED BY <2>3, StaysQueued
  <1> QED BY <1>1, <1>2, <1>3


(* A job is given up for cause only: three attempts that PostgreSQL failed,*)
(* or two deaths of the process while its handler ran (attempts of         *)
(* bullmq.connection.ts, maxStalledCount of BullMQ).                       *)
THEOREM GivenUpForCause ==
  Spec => [](\A j \in Job : state[j] = "failed" => faults >= attempts \/ crashes > maxStalledCount)
  <1>1. Init => SpentInv
    BY DEF Init, SpentInv, Spent
  <1>2. CoreInv /\ SpentInv =>
          \A j \in Job : state[j] = "failed" => faults >= attempts \/ crashes > maxStalledCount
    BY Counters DEF SpentInv, Spent, attempts, maxStalledCount
  <1> QED BY <1>1, <1>2, CoreCorrect, SpentStep, PTL DEF Spec

(* No order of an accepted batch is lost on the way to the queue or in it. *)
THEOREM NoJobLost == Spec => [](\A b \in Batch : api[b] = "accepted" => \A j \in jobsOf(b) : state[j] # "none")
  <1>1. Init => QueuedInv /\ Fresh
    BY DEF Init, QueuedInv, Fresh
  <1>2. CoreInv /\ Fresh /\ [Next]_vars => Fresh'
    BY ValidStep
  <1>3. QueuedInv => \A b \in Batch : api[b] = "accepted" => \A j \in jobsOf(b) : state[j] # "none"
    BY DEF QueuedInv
  <1> QED BY <1>1, <1>2, <1>3, CoreCorrect, QueuedStep, PTL DEF Spec

(* When the queue has nothing left to do for a batch, the batch is         *)
(* COMPLETED: no client polls for ever for want of a count.  The           *)
(* assumptions are those of BatchCompletes: one job at a time, no crash,   *)
(* no order_id twice in the request, and fewer faults than a job has       *)
(* attempts (batch.worker.ts:69-73).                                       *)
THEOREM QuietMeansCompleted ==
  ASSUME concurrency = 1, MaxCrashes = 0, MaxFaults < attempts
  PROVE  Spec => [](\A b \in Batch :
                      api[b] = "accepted" /\ EachOnce(b) /\ (\A j \in jobsOf(b) : state[j] \notin {"waiting", "active"}) =>
                        rows[b].status = "COMPLETED")
  <1>1. CoreInv => ~Crash
    BY BoundAssumption DEF CoreInv, TypeOK, Crash
  <1>2. Init => ExactInv /\ SpentInv /\ QueuedInv
    BY ExactInit DEF Init, SpentInv, Spent, QueuedInv
  <1>3. PendingInv => Fresh
    BY DEF PendingInv
  <1>4. CoreInv /\ SerialInv /\ ExactInv /\ SpentInv /\ QueuedInv =>
          \A b \in Batch :
            api[b] = "accepted" /\ EachOnce(b) /\ (\A j \in jobsOf(b) : state[j] \notin {"waiting", "active"}) =>
              rows[b].status = "COMPLETED"
    <2> SUFFICES ASSUME CoreInv, SerialInv, ExactInv, SpentInv, QueuedInv, NEW b \in Batch, api[b] = "accepted",
                        EachOnce(b), \A j \in jobsOf(b) : state[j] \notin {"waiting", "active"}
                 PROVE  rows[b].status = "COMPLETED"
      OBVIOUS
    <2>1. ASSUME NEW j \in jobsOf(b) PROVE state[j] = "completed"
      <3>1. j \in Job /\ state[j] \notin {"none", "waiting", "active"}
        BY <2>1 DEF QueuedInv, jobsOf
      <3>2. faults < 3 /\ crashes = 0 /\ made[j] \in Nat /\ stalls[j] \in Nat /\ faults \in Nat
        <4>1. faults \in 0..MaxFaults /\ crashes \in 0..MaxCrashes /\ MaxFaults \in Nat
          BY BoundAssumption DEF CoreInv, TypeOK
        <4> QED BY <3>1, <4>1, Counters DEF attempts
      <3>3. state[j] # "failed" /\ state[j] # "stalled"
        BY <3>1, <3>2 DEF SpentInv, Spent, attempts, maxStalledCount
      <3> QED BY <3>1, <3>3, QueueTypes
    <2>2. NotDone(b) = {}
      BY <2>1 DEF NotDone, Done
    <2>3. rows[b].pendingCount = 0
      <3>1. /\ 0 + Len(valid[b]) = Cardinality(jobsOf(b)) + rows[b].pendingCount
            /\ Cardinality(jobsOf(b)) = Len(valid[b]) /\ Len(valid[b]) \in Nat /\ rows[b].pendingCount \in Nat
        BY <2>2, JobsExact, FS_EmptySet DEF ExactInv, CoreInv, TypeOK, Row
      <3> QED BY <3>1
    <2> QED BY <2>3 DEF SerialInv
  <1> QED BY <1>1, <1>2, <1>3, <1>4, CoreCorrect, PendingInit, PendingStep, SerialInit, SerialStep, ExactStep,
             SpentStep, QueuedStep, PTL DEF Spec

-----------------------------------------------------------------------------
(* The measure that every step of a job lowers                             *)

\* how far a run of a handler is from its end, and a job from its next run
Work(j) ==
  CASE pc[j] = "find"   -> 8
    [] pc[j] = "create" -> IF run(j, runs[j]) \in booked THEN 5 ELSE IF Owns(run(j, runs[j])) THEN 6 ELSE 7
    [] pc[j] = "select" -> 4
    [] pc[j] = "update" -> 3
    [] pc[j] = "ack"    -> 2
    [] OTHER -> IF state[j] = "stalled" THEN 1 ELSE 0

JobStep(j) == Take(j) \/ processJob(j) \/ Complete(j) \/ HandlerThrows(j) \/ Recover(j)

Moves(j) == \/ runs'[j] > runs[j]
            \/ runs'[j] = runs[j] /\ Work(j)' < Work(j)

Stays(j) == runs'[j] = runs[j] /\ state'[j] = state[j] /\ Work(j)' = Work(j)

(* A step of a job takes it to its next run or further in the one it is in.*)
LEMMA JobMoves ==
  ASSUME CoreInv, NEW j \in Job, JobStep(j)
  PROVE  Moves(j) /\ state[j] \notin {"none", "completed", "failed"}
  <1>0. /\ Accounted(j) /\ runs[j] \in Nat
        /\ pc \in [Job -> {"idle", "find", "create", "select", "update", "ack"}]
        /\ state \in [Job -> {"none", "waiting", "active", "stalled", "completed", "failed"}]
        /\ runs \in [Job -> 0..4]
    BY QueueTypes, Counters DEF CoreInv, QueueInv
  <1>1. CASE Take(j)
    <2>1. runs'[j] = runs[j] + 1 /\ state[j] = "waiting"
      BY <1>0, <1>1 DEF Take
    <2> QED BY <1>0, <2>1 DEF Moves
  <1>2. CASE FindBatch(j)
    <2>1. runs' = runs /\ pc[j] = "find" /\ pc'[j] = "create"
      BY <1>0, <1>2 DEF FindBatch
    <2>2. Work(j) = 8 /\ Work(j)' \in {5, 6, 7}
      BY <2>1 DEF Work
    <2> QED BY <1>0, <2>1, <2>2 DEF Moves, Accounted
  <1>3. CASE CreateOrder(j)
    <2> DEFINE c == run(j, runs[j])
    <2>1. runs' = runs /\ pc[j] = "create" /\ pc'[j] = "create" /\ c \in Caller
      BY <1>0, <1>3, ActiveRun DEF CreateOrder, queue
    <2>2. \/ ~Owns(c) /\ Owns(c)' /\ booked' = booked
          \/ Owns(c) /\ c \notin booked /\ c \in booked'
      <3>1. CASE Claim(c) /\ owner'[j[2]] = c
        <4>1. j[2] \in ExtId /\ run(j, runs'[j]) = c
          BY <2>1, JobParts
        <4>2. ~Owns(c) /\ booked' = booked
          BY <3>1 DEF Claim
        <4>3. Owns(c)'
          BY <3>1, <4>1 DEF Owns, run
        <4> QED BY <4>2, <4>3
      <3>2. CASE Book(c) /\ c \notin booked
        BY <3>2 DEF Book
      <3> QED BY <1>3, <3>1, <3>2 DEF CreateOrder
    <2>3. c \in booked => Owns(c)
      BY DEF CoreInv, LedgerInv, Owns
    <2>4. Work(j)' < Work(j)
      BY <2>1, <2>2, <2>3 DEF Work
    <2> QED BY <1>0, <2>1, <2>4 DEF Moves, Accounted
  <1>4. CASE OrderDone(j)
    <2>1. runs' = runs /\ pc[j] = "create" /\ pc'[j] = "select"
      BY <1>0, <1>4 DEF OrderDone
    <2>2. Work(j) \in {5, 6, 7} /\ Work(j)' = 4
      BY <2>1 DEF Work
    <2> QED BY <1>0, <2>1, <2>2 DEF Moves, Accounted
  <1>5. CASE SelectBatch(j)
    <2>1. runs' = runs /\ pc[j] = "select" /\ pc'[j] = "update"
      BY <1>0, <1>5 DEF SelectBatch
    <2> QED BY <1>0, <2>1 DEF Moves, Accounted, Work
  <1>6. CASE UpdateBatch(j)
    <2>1. runs' = runs /\ pc[j] = "update" /\ pc'[j] = "ack"
      BY <1>0, <1>6 DEF UpdateBatch
    <2> QED BY <1>0, <2>1 DEF Moves, Accounted, Work
  <1>7. CASE Complete(j)
    <2>1. runs' = runs /\ pc[j] = "ack" /\ pc'[j] = "idle" /\ state'[j] = "completed"
      BY <1>0, <1>7 DEF Complete
    <2> QED BY <1>0, <2>1 DEF Moves, Accounted, Work
  <1>8. CASE HandlerThrows(j)
    <2>1. runs' = runs /\ pc[j] \in {"find", "select", "update"} /\ pc'[j] = "idle" /\ state'[j] \in {"waiting", "failed"}
      BY <1>0, <1>8 DEF HandlerThrows
    <2> QED BY <1>0, <2>1 DEF Moves, Accounted, Work
  <1>9. CASE Recover(j)
    <2>1. runs' = runs /\ state[j] = "stalled" /\ pc'[j] = pc[j] /\ state'[j] \in {"waiting", "failed"}
      BY <1>0, <1>9 DEF Recover
    <2>2. pc[j] = "idle"
      BY <1>0, <2>1 DEF Accounted
    <2> QED BY <1>0, <2>1, <2>2 DEF Moves, Work
  <1> QED BY <1>1, <1>2, <1>3, <1>4, <1>5, <1>6, <1>7, <1>8, <1>9 DEF JobStep, processJob


(* A call that has an owner or not, and has booked or not, is left alone   *)
(* by the calls of others.                                                 *)
LEMMA OthersCalls ==
  ASSUME CoreInv, NEW c \in Caller, NEW d \in Caller, c # d,
         Claim(d) \/ Book(d) \/ Created(d) \/ Duplicate(d) \/ Fail(d)
  PROVE  Owns(c)' = Owns(c) /\ (c \in booked') = (c \in booked)
  <1>1. CASE Claim(d)
    <2>1. PICK e \in ExtId : owner[e] = None /\ owner' = [owner EXCEPT ![e] = d] /\ booked' = booked
      BY <1>1 DEF Claim
    <2>2. owner \in [ExtId -> Caller \cup {None}] /\ c # None
      BY LedgerAssumption DEF CoreInv, TypeOK, LedgerTypeOK
    <2>3. \A f \in ExtId : owner'[f] = c <=> owner[f] = c
      BY <2>1, <2>2
    <2> QED BY <2>1, <2>3 DEF Owns
  <1>2. CASE Book(d)
    BY <1>2 DEF Book, Owns
  <1>3. CASE Created(d) \/ Duplicate(d) \/ Fail(d)
    BY <1>3 DEF Created, Duplicate, Fail, Tell, Owns
  <1> QED BY <1>1, <1>2, <1>3

(* A step of another job leaves a job where it is.                         *)
LEMMA JobStays ==
  ASSUME CoreInv, NEW j \in Job, NEW k \in Job, k # j, JobStep(k)
  PROVE  Stays(j)
  <1>1. runs'[j] = runs[j] /\ pc'[j] = pc[j] /\ state'[j] = state[j]
    <2>1. \/ runs' = runs
          \/ runs' = [runs EXCEPT ![k] = @ + 1]
      BY DEF JobStep, Take, processJob, FindBatch, CreateOrder, OrderDone, SelectBatch, UpdateBatch, Complete,
             HandlerThrows, Recover, queue
    <2>2. pc' = pc \/ \E w : pc' = [pc EXCEPT ![k] = w]
      BY DEF JobStep, Take, processJob, FindBatch, CreateOrder, OrderDone, SelectBatch, UpdateBatch, Complete,
             HandlerThrows, Recover, queue
    <2>3. state' = state \/ \E w : state' = [state EXCEPT ![k] = w]
      BY DEF JobStep, Take, processJob, FindBatch, CreateOrder, OrderDone, SelectBatch, UpdateBatch, Complete,
             HandlerThrows, Recover, queue
    <2> QED BY <2>1, <2>2, <2>3, QueueTypes
  <1> DEFINE c == run(j, runs[j])
             d == run(k, runs[k])
  <1>2. ASSUME pc[j] = "create" PROVE Owns(c)' = Owns(c) /\ (c \in booked') = (c \in booked)
    <2>1. CASE UNCHANGED ledger
      <3>1. owner' = owner /\ booked' = booked /\ runs'[j] = runs[j]
        BY <1>1, <2>1 DEF ledger
      <3>2. c' = c
        BY <3>1 DEF run
      <3> QED BY <3>1, <3>2 DEF Owns
    <2>2. CASE CreateOrder(k) \/ OrderDone(k)
      <3>1. pc[k] = "create" /\ (Claim(d) \/ Book(d) \/ Created(d) \/ Duplicate(d) \/ Fail(d))
        BY <2>2 DEF CreateOrder, OrderDone
      <3>2. c \in Caller /\ d \in Caller
        BY <1>2, <3>1, ActiveRun
      <3>3. c # d
        BY JobParts
      <3> QED BY <1>1, <3>1, <3>2, <3>3, OthersCalls DEF Owns, run
    <2> QED BY <2>1, <2>2 DEF JobStep, Take, processJob, FindBatch, SelectBatch, UpdateBatch, Complete,
               HandlerThrows, Recover
  <1>3. Work(j)' = Work(j)
    BY <1>1, <1>2 DEF Work
  <1> QED BY <1>1, <1>3 DEF Stays

(* Each step of a job starts its next run or takes it further in the run   *)
(* it is in, a crash does so for the jobs it hits, no step of another job  *)
(* or of submitBulk touches a job that is in the queue, and completed and  *)
(* failed are final.  A job has at most four runs, so with weak fairness   *)
(* of its steps this is why every job ends (DESIGN.md:163-164).            *)
THEOREM JobsAdvance ==
  Spec => /\ [](\A j \in Job : runs[j] <= MaxRuns /\ Work(j) \in Nat)
          /\ [][\A j \in Job :
                  /\ JobStep(j) => Moves(j)
                  /\ state[j] # "none" => Moves(j) \/ Stays(j)
                  /\ state[j] \in {"completed", "failed"} => Stays(j)]_vars
  <1>1. CoreInv => \A j \in Job : runs[j] <= MaxRuns /\ Work(j) \in Nat
    <2> SUFFICES ASSUME CoreInv, NEW j \in Job PROVE runs[j] <= MaxRuns /\ Work(j) \in Nat
      OBVIOUS
    <2>1. runs[j] \in 0..4
      BY QueueTypes
    <2>2. Work(j) \in Nat
      BY DEF Work
    <2> QED BY <2>1, <2>2 DEF MaxRuns, attempts, maxStalledCount
  <1>2. CoreInv /\ [Next]_vars =>
          [\A j \in Job : /\ JobStep(j) => Moves(j)
                          /\ state[j] # "none" => Moves(j) \/ Stays(j)
                          /\ state[j] \in {"completed", "failed"} => Stays(j)]_vars
    <2> SUFFICES ASSUME CoreInv, Next, NEW j \in Job
                 PROVE  /\ JobStep(j) => Moves(j)
                        /\ state[j] # "none" => Moves(j) \/ Stays(j)
                        /\ state[j] \in {"completed", "failed"} => Stays(j)
      OBVIOUS
    <2>0. /\ Accounted(j) /\ runs[j] \in Nat
          /\ pc[j] \in {"idle", "find", "create", "select", "update", "ack"}
      BY QueueTypes, Counters DEF CoreInv, QueueInv
    <2>1. JobStep(j) => Moves(j) /\ state[j] \notin {"completed", "failed"}
      BY JobMoves
    <2>2. ASSUME NEW k \in Job, JobStep(k) PROVE j = k \/ Stays(j)
      BY <2>2, JobStays
    <2>3. ASSUME NEW b \in Batch, submitBulk(b) \/ EnqueueFails(b), state[j] # "none" PROVE Stays(j)
      <3>1. UNCHANGED <<ledger, pc, runs>>
        BY <2>3 DEF submitBulk, SaveBatch, Enqueue, EnqueueFails, queue
      <3>2. state'[j] = state[j]
        <4>1. api[j[1]] = "accepted"
          BY <2>0, <2>3 DEF Accounted
        <4> QED BY <2>3, <4>1 DEF submitBulk, SaveBatch, Enqueue, EnqueueFails, queue
      <3>3. Work(j)' = Work(j)
        BY <3>1, <3>2 DEF Work, run, Owns, ledger
      <3> QED BY <3>1, <3>2, <3>3 DEF Stays
    <2>4. CASE Crash
      <3>1. /\ UNCHANGED <<ledger, runs>> /\ pc'[j] = "idle"
            /\ state'[j] = IF state[j] = "active" THEN "stalled" ELSE state[j]
        BY <2>4 DEF Crash
      <3>2. CASE state[j] = "active"
        <4>1. pc[j] # "idle" /\ Work(j)' = 1
          BY <2>0, <3>1, <3>2 DEF Accounted, Work
        <4>2. Work(j) > 1
          BY <2>0, <4>1 DEF Work
        <4> QED BY <2>0, <2>1, <3>1, <3>2, <4>1, <4>2 DEF Moves
      <3>3. CASE state[j] # "active"
        <4>1. pc[j] = "idle"
          BY <2>0, <3>3 DEF Accounted
        <4>2. Work(j)' = Work(j)
          BY <3>1, <3>3, <4>1 DEF Work
        <4> QED BY <2>1, <3>1, <3>3, <4>2 DEF Stays
      <3> QED BY <3>2, <3>3
    <2>5. (\E k \in Job : JobStep(k)) \/ (\E b \in Batch : submitBulk(b) \/ EnqueueFails(b)) \/ Crash
      BY DEF Next, JobStep
    <2> QED BY <2>1, <2>2, <2>3, <2>4, <2>5
  <1> QED BY <1>1, <1>2, CoreCorrect, PTL DEF Spec


-----------------------------------------------------------------------------
(* The claims of DESIGN.md that the code does not keep, and how far it is  *)
(* from keeping them                                                       *)

(* DESIGN.md:151 has it that the valid orders are enqueued: a batch has a  *)
(* job for every one of them exactly when no order_id stands among them    *)
(* twice, for only then do no two jobIds collide (batch.service.ts:112).   *)
THEOREM OnlyRepeatedOrdersLackJobs ==
  Spec => [](\A b \in Batch : Cardinality(jobsOf(b)) = Len(valid[b]) <=> EachOnce(b))
  <1>1. CoreInv => \A b \in Batch : Cardinality(jobsOf(b)) = Len(valid[b]) <=> EachOnce(b)
    BY JobsExact
  <1> QED BY <1>1, CoreCorrect, PTL

\* the handler of j is in the createOrder that is the caller c
Creating(j, c) == pc[j] = "create" /\ c = run(j, runs[j])

\* jobs whose order has a row and no outcome, and no handler that would give
\* it one: every later run meets the row and is told "duplicate"
Abandoned == {j \in Job : \E c \in RunsOf(j) : owner[j[2]] = c /\ outcome[c] = "none" /\ ~Creating(j, c)}

AbandonedInv == /\ IsFiniteSet(Active) /\ Cardinality(Active) <= concurrency
                /\ IsFiniteSet(Abandoned) /\ Cardinality(Abandoned) <= crashes * concurrency

(* The worker never runs more handlers than it is configured for.          *)
LEMMA ActiveBounded ==
  ASSUME CoreInv, [Next]_vars, IsFiniteSet(Active), Cardinality(Active) <= concurrency
  PROVE  IsFiniteSet(Active)' /\ Cardinality(Active)' <= concurrency
  <1>0. /\ state \in [Job -> {"none", "waiting", "active", "stalled", "completed", "failed"}]
        /\ concurrency \in Nat /\ Cardinality(Active) \in Nat
    BY QueueTypes, BoundAssumption, FS_CardinalityType
  <1>1. CASE \E j \in Job : Take(j)
    <2>1. PICK j \in Job : Take(j)
      BY <1>1
    <2>2. Cardinality(Active) < concurrency /\ Active' = Active \cup {j}
      BY <1>0, <2>1 DEF Take, Active
    <2> QED BY <1>0, <2>2, FS_AddElement
  <1>2. CASE ~\E j \in Job : Take(j)
    <2>1. ASSUME NEW j \in Job, j \in Active' PROVE j \in Active
      <3>1. state'[j] = "active"
        BY <2>1 DEF Active
      <3>2. CASE \E k \in Job : processJob(k) \/ Complete(k) \/ HandlerThrows(k) \/ Recover(k)
        <4>1. state' = state \/ \E k \in Job, w \in {"completed", "waiting", "failed"} : state' = [state EXCEPT ![k] = w]
          BY <3>2 DEF processJob, FindBatch, CreateOrder, OrderDone, SelectBatch, UpdateBatch, Complete,
                      HandlerThrows, Recover, queue
        <4> QED BY <1>0, <3>1, <4>1 DEF Active
      <3>3. CASE \E b \in Batch : submitBulk(b) \/ EnqueueFails(b)
        BY <3>1, <3>3 DEF submitBulk, SaveBatch, Enqueue, EnqueueFails, queue, Active
      <3>4. CASE Crash
        BY <3>1, <3>4 DEF Crash, Active
      <3>5. CASE UNCHANGED vars
        BY <3>1, <3>5 DEF vars, queue, Active
      <3> QED BY <1>2, <3>2, <3>3, <3>4, <3>5 DEF Next
    <2>2. Active' \in SUBSET Active
      BY <2>1 DEF Active
    <2>3. IsFiniteSet(Active') /\ Cardinality(Active') <= Cardinality(Active)
      BY <2>2, FS_Subset
    <2>4. Cardinality(Active') \in Nat
      BY <2>3, FS_CardinalityType
    <2> QED BY <1>0, <2>3, <2>4
  <1> QED BY <1>1, <1>2

(* An order is abandoned by a crash that takes its handler, or never.      *)
LEMMA AbandonedByCrash ==
  ASSUME CoreInv, [Next]_vars, NEW j \in Job, j \in Abandoned', j \notin Abandoned
  PROVE  Crash /\ j \in Active
  <1>0. /\ owner \in [ExtId -> Caller \cup {None}] /\ outcome \in [Caller -> Outcome]
        /\ pc \in [Job -> {"idle", "find", "create", "select", "update", "ack"}]
        /\ LedgerInv /\ j[2] \in ExtId
    BY QueueTypes, JobParts DEF CoreInv, TypeOK, LedgerTypeOK
  <1>1. PICK c \in RunsOf(j) : owner'[j[2]] = c /\ outcome'[c] = "none" /\ ~Creating(j, c)'
    BY DEF Abandoned
  <1>2. c \in Caller /\ outcome[c] = "none"
    <2>1. c \in Caller
      BY JobParts
    <2> QED BY <1>0, <1>1, <2>1, LedgerStep, LedgerGrows
  <1>3. CASE owner[j[2]] = c
    <2>1. pc[j] = "create" /\ c = run(j, runs[j])
      BY <1>2, <1>3 DEF Abandoned, Creating
    <2>2. j \in Active
      BY <2>1 DEF CoreInv, QueueInv, Accounted, Active
    <2>3. ASSUME NEW k \in Job, OrderDone(k) PROVE k # j
      <3>1. SUFFICES ASSUME k = j PROVE FALSE
        OBVIOUS
      <3>2. Created(c) \/ Duplicate(c) \/ Fail(c)
        BY <2>1, <2>3, <3>1 DEF OrderDone
      <3>3. outcome'[c] # "none"
        BY <1>0, <1>2, <3>2 DEF Created, Duplicate, Fail, Tell
      <3> QED BY <1>1, <3>3
    <2>4. ASSUME pc'[j] = "create", runs'[j] = runs[j] PROVE FALSE
      BY <1>1, <2>1, <2>4 DEF Creating, run
    <2>5. ASSUME NEW k \in Job, k # j, Take(k) \/ processJob(k) \/ Complete(k) \/ HandlerThrows(k) \/ Recover(k)
          PROVE  FALSE
      <3>1. Stays(j) /\ pc'[j] = pc[j]
        <4>1. pc' = pc \/ \E w : pc' = [pc EXCEPT ![k] = w]
          BY <2>5 DEF Take, processJob, FindBatch, CreateOrder, OrderDone, SelectBatch, UpdateBatch, Complete,
                      HandlerThrows, Recover, queue
        <4> QED BY <1>0, <2>5, <4>1, JobStays DEF JobStep
      <3> QED BY <2>1, <2>4, <3>1 DEF Stays
    <2>6. ASSUME Take(j) \/ processJob(j) \/ Complete(j) \/ HandlerThrows(j) \/ Recover(j)
          PROVE  FALSE
      <3>1. state[j] = "active"
        BY <2>2 DEF Active
      <3>2. CreateOrder(j)
        BY <2>1, <2>3, <2>6, <3>1 DEF Take, processJob, FindBatch, SelectBatch, UpdateBatch, Complete,
                                      HandlerThrows, Recover
      <3> QED BY <2>1, <2>4, <3>2 DEF CreateOrder, queue
    <2>7. ASSUME NEW b \in Batch, submitBulk(b) \/ EnqueueFails(b) PROVE FALSE
      <3>1. pc' = pc /\ runs' = runs
        BY <2>7 DEF submitBulk, SaveBatch, Enqueue, EnqueueFails, queue
      <3> QED BY <2>1, <2>4, <3>1
    <2>8. ~UNCHANGED vars
      BY <2>1, <2>4 DEF vars, queue
    <2> QED BY <2>2, <2>5, <2>6, <2>7, <2>8 DEF Next
  <1>4. CASE owner[j[2]] # c
    <2>1. owner' # owner
      BY <1>1, <1>4
    <2>2. PICK k \in Job : CreateOrder(k)
      <3>1. ASSUME NEW k \in Job, OrderDone(k) PROVE UNCHANGED owner
        BY <3>1 DEF OrderDone, Created, Duplicate, Fail, Tell
      <3>2. ASSUME NEW b \in Batch, submitBulk(b) \/ EnqueueFails(b) PROVE UNCHANGED owner
        BY <3>2 DEF submitBulk, SaveBatch, Enqueue, EnqueueFails, ledger
      <3>3. ASSUME NEW k \in Job,
                   \/ Take(k) \/ FindBatch(k) \/ SelectBatch(k) \/ UpdateBatch(k)
                   \/ Complete(k) \/ HandlerThrows(k) \/ Recover(k)
            PROVE  UNCHANGED owner
        BY <3>3 DEF Take, FindBatch, SelectBatch, UpdateBatch, Complete, HandlerThrows, Recover, ledger
      <3>4. Crash => UNCHANGED owner
        BY DEF Crash, ledger
      <3>5. UNCHANGED vars => UNCHANGED owner
        BY DEF vars, ledger
      <3> QED BY <2>1, <3>1, <3>2, <3>3, <3>4, <3>5 DEF Next, processJob
    <2>3. Claim(run(k, runs[k])) /\ pc[k] = "create" /\ pc' = pc /\ runs' = runs
      BY <2>1, <2>2 DEF CreateOrder, Book, queue
    <2>4. PICK e \in ExtId : owner' = [owner EXCEPT ![e] = run(k, runs[k])]
      BY <2>3 DEF Claim
    <2>5. c = run(k, runs[k])
      BY <1>0, <1>1, <1>4, <2>4
    <2>6. k = j
      <3>1. c[1] = k[1] /\ c[2] = k[2]
        BY <2>5, JobParts
      <3>2. c[1] = j[1] /\ c[2] = j[2]
        BY JobParts DEF RunsOf
      <3>3. k = <<k[1], k[2]>> /\ j = <<j[1], j[2]>>
        BY JobParts
      <3> QED BY <3>1, <3>2, <3>3
    <2>7. Creating(j, c)'
      BY <2>3, <2>5, <2>6 DEF Creating, run
    <2> QED BY <1>1, <2>7
  <1> QED BY <1>3, <1>4

(* Each crash abandons as many orders as handlers were running, at most.   *)
LEMMA AbandonedStep == CoreInv /\ AbandonedInv /\ [Next]_vars => AbandonedInv'
  <1> SUFFICES ASSUME CoreInv, AbandonedInv, [Next]_vars PROVE AbandonedInv'
    OBVIOUS
  <1>0. /\ IsFiniteSet(Active) /\ Cardinality(Active) \in Nat /\ Cardinality(Active) <= concurrency
        /\ IsFiniteSet(Abandoned) /\ Cardinality(Abandoned) \in Nat
        /\ Cardinality(Abandoned) <= crashes * concurrency
        /\ crashes \in Nat /\ concurrency \in Nat
    <2>1. crashes \in 0..MaxCrashes
      BY DEF CoreInv, TypeOK
    <2> QED BY <2>1, BoundAssumption, FS_CardinalityType DEF AbandonedInv
  <1>1. IsFiniteSet(Active') /\ Cardinality(Active') <= concurrency
    BY <1>0, ActiveBounded
  <1>2. CASE Crash
    <2>1. Abandoned' \in SUBSET (Abandoned \cup Active)
      BY AbandonedByCrash DEF Abandoned
    <2>2. /\ IsFiniteSet(Abandoned \cup Active)
          /\ Cardinality(Abandoned \cup Active) <= Cardinality(Abandoned) + Cardinality(Active)
      <3>1. Abandoned \cap Active \in SUBSET Active
        OBVIOUS
      <3>2. IsFiniteSet(Abandoned \cap Active)
        BY <1>0, <3>1, FS_Subset
      <3>3. Cardinality(Abandoned \cap Active) \in Nat
        BY <3>2, FS_CardinalityType
      <3>4. IsFiniteSet(Abandoned \cup Active)
            /\ Cardinality(Abandoned \cup Active) =
                 Cardinality(Abandoned) + Cardinality(Active) - Cardinality(Abandoned \cap Active)
        BY <1>0, FS_Union
      <3> QED BY <1>0, <3>3, <3>4
    <2>3. IsFiniteSet(Abandoned') /\ Cardinality(Abandoned') <= Cardinality(Abandoned \cup Active)
      BY <2>1, <2>2, FS_Subset
    <2>4. Cardinality(Abandoned') \in Nat /\ Cardinality(Abandoned \cup Active) \in Nat
      BY <2>2, <2>3, FS_CardinalityType
    <2>5. (crashes + 1) * concurrency = crashes * concurrency + concurrency
      BY <1>0
    <2>6. crashes * concurrency \in Nat
      BY <1>0
    <2>7. crashes' * concurrency = crashes * concurrency + concurrency
      BY <1>2, <2>5 DEF Crash
    <2>8. Cardinality(Abandoned') <= crashes' * concurrency
      <3> DEFINE p == crashes * concurrency
                 q == crashes' * concurrency
      <3>1. p \in Nat /\ q = p + concurrency /\ Cardinality(Abandoned) <= p
        BY <1>0, <2>6, <2>7
      <3> HIDE DEF p, q
      <3>2. Cardinality(Abandoned') <= q
        BY <1>0, <2>2, <2>3, <2>4, <3>1
      <3> QED BY <3>2 DEF q
    <2> QED BY <1>1, <2>3, <2>8 DEF AbandonedInv
  <1>3. CASE ~Crash
    <2>1. Abandoned' \in SUBSET Abandoned
      BY <1>3, AbandonedByCrash DEF Abandoned
    <2>2. IsFiniteSet(Abandoned') /\ Cardinality(Abandoned') <= Cardinality(Abandoned)
      BY <1>0, <2>1, FS_Subset
    <2>3. Cardinality(Abandoned') \in Nat
      BY <2>2, FS_CardinalityType
    <2>4. crashes' = crashes
      BY <1>3 DEF Next, submitBulk, SaveBatch, Enqueue, EnqueueFails, Take, processJob, FindBatch, CreateOrder,
                  OrderDone, SelectBatch, UpdateBatch, Complete, HandlerThrows, Recover, vars
    <2>5. crashes * concurrency \in Nat
      BY <1>0
    <2>6. Cardinality(Abandoned') <= crashes' * concurrency
      <3> DEFINE p == crashes * concurrency
      <3>1. p \in Nat /\ Cardinality(Abandoned) <= p
        BY <1>0, <2>5
      <3> HIDE DEF p
      <3>2. Cardinality(Abandoned') <= p
        BY <1>0, <2>2, <2>3, <3>1
      <3> QED BY <2>4, <3>2 DEF p
    <2> QED BY <1>1, <2>2, <2>6 DEF AbandonedInv
  <1> QED BY <1>2, <1>3

(* Nothing runs and nothing is abandoned at first.                         *)
LEMMA AbandonedInit == Init => AbandonedInv
  <1> SUFFICES ASSUME Init PROVE AbandonedInv
    OBVIOUS
  <1>1. Active = {} /\ Abandoned = {}
    <2>1. ASSUME NEW j \in Job, NEW c \in RunsOf(j) PROVE owner[j[2]] # c
      BY JobParts, LedgerAssumption DEF Init, LedgerInit
    <2> QED BY <2>1 DEF Init, Active, Abandoned
  <1>2. crashes * concurrency = 0 /\ concurrency \in Nat
    BY BoundAssumption DEF Init
  <1> QED BY <1>1, <1>2, FS_EmptySet DEF AbandonedInv

(* An order that has a row and will never have an outcome, so that every   *)
(* re-attempt is told it is a duplicate, was abandoned by a crash within   *)
(* createOrder; a crash abandons one for each handler that runs at most    *)
(* (DESIGN.md:165, order.service.ts:20 and 39).                            *)
THEOREM AbandonedBounded == Spec => [](IsFiniteSet(Abandoned) /\ Cardinality(Abandoned) <= crashes * concurrency)
  <1>1. AbandonedInv => IsFiniteSet(Abandoned) /\ Cardinality(Abandoned) <= crashes * concurrency
    BY DEF AbandonedInv
  <1> QED BY <1>1, CoreCorrect, AbandonedInit, AbandonedStep, PTL DEF Spec

(* As long as the process does not die, further attempts of a job leave no *)
(* order without an outcome, whatever saves fail: the claim of             *)
(* DESIGN.md:165 fails for crashes only (batch.worker.ts:29-75).           *)
THEOREM ReattemptsComplete == Spec => [](crashes = 0 => ReattemptProcesses)
  <1>1. CoreInv /\ AbandonedInv => (crashes = 0 => ReattemptProcesses)
    <2> SUFFICES ASSUME CoreInv, AbandonedInv, crashes = 0, NEW j \in Job,
                        state[j] = "completed", owner[j[2]] \in RunsOf(j), outcome[owner[j[2]]] = "none"
                 PROVE  FALSE
      BY DEF ReattemptProcesses
    <2>1. pc[j] # "create"
      BY DEF CoreInv, QueueInv, Accounted
    <2>2. j \in Abandoned
      BY <2>1 DEF Abandoned, Creating
    <2>3. IsFiniteSet(Abandoned) /\ Cardinality(Abandoned) \in Nat /\ Cardinality(Abandoned) <= 0 * concurrency
      BY FS_CardinalityType DEF AbandonedInv
    <2>4. 0 * concurrency = 0
      BY BoundAssumption
    <2>5. Cardinality(Abandoned) = 0
      BY <2>3, <2>4
    <2> QED BY <2>2, <2>3, <2>5, FS_EmptySet
  <1> QED BY <1>1, CoreCorrect, AbandonedInit, AbandonedStep, PTL DEF Spec
=============================================================================
