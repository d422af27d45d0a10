------------------------------ MODULE Batches ------------------------------
(***************************************************************************)
(* Bulk orders: BulkOrderService.submitBulk (batch.service.ts), the BullMQ *)
(* queue, and the handler of BulkOrderWorker (batch.worker.ts).            *)
(*                                                                         *)
(* A job is a pair <<b, e>>, the jobId `${batch.id}-${dto.order_id}`, and  *)
(* a run of its handler a caller <<b, e, n>> of createOrder, which is      *)
(* OrderLedger here: Orders is shown to implement it.  The row of table    *)
(* batch_jobs is read when a run starts and saved when it ends, by a       *)
(* SELECT, a comparison and an UPDATE of the columns that differ, like     *)
(* every save of an entity that has an id (see Orders).                    *)
(*                                                                         *)
(* BullMQ is modelled as the code configures it: three attempts, a job id  *)
(* that is already known is ignored, a job whose worker died is put back   *)
(* once (maxStalledCount, 1 by default) and failed after that.  Backoff is *)
(* time and left out, and so is a stall of a live worker.                  *)
(***************************************************************************)
EXTENDS OrderLedger, Integers, Sequences, FiniteSets

CONSTANTS
  Batch,        \* ids of batches
  Payload,      \* the valid orders of a request: sequences of external ids
  MaxInvalid,   \* bound: orders of a request that do not validate
  concurrency,  \* config.bullmq.concurrency
  MaxFaults,    \* bound: round trips to PostgreSQL or Redis that fail
  MaxCrashes    \* bound: deaths of the process

attempts        == 3   \* defaultJobOptions.attempts
maxStalledCount == 1
MaxRuns         == attempts + maxStalledCount

Job == Batch \X ExtId
run(j, n) == <<j[1], j[2], n>>

ASSUME CallerAssumption == Caller = Batch \X ExtId \X (1..MaxRuns)
ASSUME PayloadAssumption == Payload \subseteq Seq(ExtId)
ASSUME BoundAssumption == /\ MaxInvalid \in Nat /\ MaxFaults \in Nat /\ MaxCrashes \in Nat
                          /\ concurrency \in Nat \ {0}

VARIABLES
  api,      \* batch -> where its submitBulk is
  valid,    \* batch -> its valid orders
  invalid,  \* batch -> how many orders did not validate
  rows,     \* batch -> its row, meaningful once it is saved
  state,    \* job -> its state in the queue
  pc,       \* job -> the await its handler is at, while active
  runs,     \* job -> how many times its handler was started
  made,     \* job -> attemptsMade
  stalls,   \* job -> how often it was found stalled
  mem,      \* job -> the BatchJob entity its handler holds
  dirty,    \* job -> columns the UPDATE of its save will write
  faults, crashes

queue == <<state, pc, runs, made, stalls>>
vars  == <<ledger, api, valid, invalid, rows, queue, mem, dirty, faults, crashes>>

-----------------------------------------------------------------------------
Column == {"successCount", "failureCount", "pendingCount", "status", "results"}

Result == [ext: ExtId \cup {None}, status: {"SUCCESS", "DUPLICATE", "FAILED", "INVALID"}]

Row == [successCount: Nat, failureCount: Nat, pendingCount: Nat,
        status: {"PROCESSING", "COMPLETED"}, results: Seq(Result)]

\* mutant: the orders that do not validate are listed and not counted
NewBatchInvalidUncounted(n, m) ==
  [successCount |-> 0, failureCount |-> 0, pendingCount |-> n,
   status |-> IF n > 0 THEN "PROCESSING" ELSE "COMPLETED",
   results |-> [i \in 1..m |-> [ext |-> None, status |-> "INVALID"]]]

\* lines 88 to 96 of submitBulk: n valid orders and m that are not
NewBatch(n, m) == [successCount |-> 0, failureCount |-> m, pendingCount |-> n,
                   status |-> IF n > 0 THEN "PROCESSING" ELSE "COMPLETED",
                   results |-> [i \in 1..m |-> [ext |-> None, status |-> "INVALID"]]]

ordersOf(b) == {valid[b][i] : i \in DOMAIN valid[b]}

\* mutant: a duplicate counts as a success
CountDuplicates(row, e, s) ==
  LET n == row.pendingCount - 1 IN
  [row EXCEPT !.successCount = IF s # "FAILED" THEN @ + 1 ELSE @,
              !.failureCount = IF s = "FAILED" THEN @ + 1 ELSE @,
              !.results = Append(@, [ext |-> e, status |-> IF s # "FAILED" THEN "SUCCESS" ELSE s]),
              !.pendingCount = IF n < 0 THEN 0 ELSE n,
              !.status = IF n <= 0 THEN "COMPLETED" ELSE @]

\* mutant: no Math.max around the decrement
CountBelowZero(row, e, s) ==
  [successCount |-> row.successCount + (IF s = "SUCCESS" THEN 1 ELSE 0),
   failureCount |-> row.failureCount + (IF s = "SUCCESS" THEN 0 ELSE 1),
   pendingCount |-> row.pendingCount - 1,
   status       |-> IF row.pendingCount = 1 THEN "COMPLETED" ELSE row.status,
   results      |-> Append(row.results, [ext |-> e, status |-> s])]

\* mutant: the last pending order is taken for none
CountEarly(row, e, s) ==
  [row EXCEPT !.successCount = IF s = "SUCCESS" THEN @ + 1 ELSE @,
              !.failureCount = IF s = "SUCCESS" THEN @ ELSE @ + 1,
              !.results = Append(@, [ext |-> e, status |-> s]),
              !.pendingCount = @ - 1,
              !.status = IF row.pendingCount <= 2 THEN "COMPLETED" ELSE @]

\* mutant: only a success takes the order off the pending ones
CountPendingOnSuccess(row, e, s) ==
  LET n == IF s = "SUCCESS" THEN row.pendingCount - 1 ELSE row.pendingCount IN
  [row EXCEPT !.successCount = IF s = "SUCCESS" THEN @ + 1 ELSE @,
              !.failureCount = IF s = "SUCCESS" THEN @ ELSE @ + 1,
              !.results = Append(@, [ext |-> e, status |-> s]),
              !.pendingCount = n,
              !.status = IF n = 0 THEN "COMPLETED" ELSE @]

\* lines 46 to 73 of the handler: the result of one order on the entity
Count(row, e, s) ==
  LET n == IF row.pendingCount > 0 THEN row.pendingCount - 1 ELSE 0 IN
  [successCount |-> row.successCount + (IF s = "SUCCESS" THEN 1 ELSE 0),
   failureCount |-> row.failureCount + (IF s = "SUCCESS" THEN 0 ELSE 1),
   pendingCount |-> n,
   status       |-> IF n = 0 THEN "COMPLETED" ELSE row.status,
   results      |-> Append(row.results, [ext |-> e, status |-> s])]

Differ(a, b) == {c \in Column : \/ c = "successCount" /\ a.successCount # b.successCount
                                \/ c = "failureCount" /\ a.failureCount # b.failureCount
                                \/ c = "pendingCount" /\ a.pendingCount # b.pendingCount
                                \/ c = "status"       /\ a.status # b.status
                                \/ c = "results"      /\ a.results # b.results}

Merge(old, new, cols) ==
  [successCount |-> IF "successCount" \in cols THEN new.successCount ELSE old.successCount,
   failureCount |-> IF "failureCount" \in cols THEN new.failureCount ELSE old.failureCount,
   pendingCount |-> IF "pendingCount" \in cols THEN new.pendingCount ELSE old.pendingCount,
   status       |-> IF "status" \in cols THEN new.status ELSE old.status,
   results      |-> IF "results" \in cols THEN new.results ELSE old.results]

-----------------------------------------------------------------------------
Init ==
  /\ LedgerInit
  /\ api = [b \in Batch |-> "none"] /\ valid = [b \in Batch |-> << >>]
  /\ invalid = [b \in Batch |-> 0] /\ rows = [b \in Batch |-> NewBatch(0, 0)]
  /\ state = [j \in Job |-> "none"] /\ pc = [j \in Job |-> "idle"]
  /\ runs = [j \in Job |-> 0] /\ made = [j \in Job |-> 0] /\ stalls = [j \in Job |-> 0]
  /\ mem = [j \in Job |-> NewBatch(0, 0)] /\ dirty = [j \in Job |-> {}]
  /\ faults = 0 /\ crashes = 0

(* submitBulk *)

\* what the controller lets through
bulkCreateOrders(n) == n \in 1..100

\* validate every order and save the row of the batch
SaveBatch(b) ==
  /\ api[b] = "none"
  /\ \E orders \in Payload, m \in 0..MaxInvalid :
       /\ bulkCreateOrders(Len(orders) + m)
       /\ valid' = [valid EXCEPT ![b] = orders]
       /\ invalid' = [invalid EXCEPT ![b] = m]
       /\ rows' = [rows EXCEPT ![b] = NewBatch(Len(orders), m)]
       /\ api' = [api EXCEPT ![b] = IF Len(orders) > 0 THEN "saved" ELSE "accepted"]
  /\ UNCHANGED <<ledger, queue, mem, dirty, faults, crashes>>

\* queue.addBulk, one transaction; a job id that exists already is ignored
Enqueue(b) ==
  /\ api[b] = "saved"
  /\ state' = [j \in Job |-> IF j[1] = b /\ j[2] \in ordersOf(b) THEN "waiting" ELSE state[j]]
  /\ api' = [api EXCEPT ![b] = "accepted"]
  /\ UNCHANGED <<ledger, valid, invalid, rows, pc, runs, made, stalls, mem, dirty, faults, crashes>>

\* addBulk throws: 500 to the caller, and the row stays as it was saved
EnqueueFails(b) ==
  /\ api[b] = "saved" /\ faults < MaxFaults
  /\ api' = [api EXCEPT ![b] = "refused"] /\ faults' = faults + 1
  /\ UNCHANGED <<ledger, valid, invalid, rows, queue, mem, dirty, crashes>>

(* the worker *)

Active == {j \in Job : state[j] = "active"}

\* a free slot of the worker takes a waiting job
Take(j) ==
  /\ state[j] = "waiting" /\ Cardinality(Active) < concurrency
  /\ state' = [state EXCEPT ![j] = "active"]
  /\ runs' = [runs EXCEPT ![j] = @ + 1]
  /\ pc' = [pc EXCEPT ![j] = "find"]
  /\ UNCHANGED <<ledger, api, valid, invalid, rows, made, stalls, mem, dirty, faults, crashes>>

FindBatch(j) ==
  /\ pc[j] = "find"
  /\ mem' = [mem EXCEPT ![j] = rows[j[1]]]
  /\ pc' = [pc EXCEPT ![j] = "create"]
  /\ UNCHANGED <<ledger, api, valid, invalid, rows, state, runs, made, stalls, dirty, faults, crashes>>

\* orderService.createOrder: claim the external id, book the shipment ...
CreateOrder(j) ==
  LET c == run(j, runs[j]) IN
  /\ pc[j] = "create"
  /\ \/ Claim(c) /\ owner'[j[2]] = c
     \/ Book(c) /\ c \notin booked
  /\ UNCHANGED <<api, valid, invalid, rows, queue, mem, dirty, faults, crashes>>

\* mutant: no catch, and nobody hears of an order that is not created
OrderDoneCreated(j) ==
  /\ pc[j] = "create" /\ Created(run(j, runs[j]))
  /\ mem' = [mem EXCEPT ![j] = Count(@, j[2], "SUCCESS")]
  /\ pc' = [pc EXCEPT ![j] = "select"]
  /\ UNCHANGED <<api, valid, invalid, rows, state, runs, made, stalls, dirty, faults, crashes>>

\* ... and return or throw; either way the result is put on the entity
OrderDone(j) ==
  LET c == run(j, runs[j])
      count(s) == mem' = [mem EXCEPT ![j] = Count(@, j[2], s)] IN
  /\ pc[j] = "create"
  /\ \/ Created(c) /\ count("SUCCESS")
     \/ owner[j[2]] # None /\ Duplicate(c) /\ count("DUPLICATE")
     \/ Fail(c) /\ count("FAILED")
  /\ pc' = [pc EXCEPT ![j] = "select"]
  /\ UNCHANGED <<api, valid, invalid, rows, state, runs, made, stalls, dirty, faults, crashes>>

\* the two halves of batchRepo.save(batch)
SelectBatch(j) ==
  /\ pc[j] = "select"
  /\ dirty' = [dirty EXCEPT ![j] = Differ(mem[j], rows[j[1]])]
  /\ pc' = [pc EXCEPT ![j] = "update"]
  /\ UNCHANGED <<ledger, api, valid, invalid, rows, state, runs, made, stalls, mem, faults, crashes>>

UpdateBatch(j) ==
  /\ pc[j] = "update"
  /\ rows' = [rows EXCEPT ![j[1]] = Merge(@, mem[j], dirty[j])]
  /\ dirty' = [dirty EXCEPT ![j] = {}]
  /\ pc' = [pc EXCEPT ![j] = "ack"]
  /\ UNCHANGED <<ledger, api, valid, invalid, state, runs, made, stalls, mem, faults, crashes>>

\* the entity of a handler that is over is gone
Drop(js) == /\ mem' = [j \in Job |-> IF j \in js THEN NewBatch(0, 0) ELSE mem[j]]
            /\ dirty' = [j \in Job |-> IF j \in js THEN {} ELSE dirty[j]]

\* the handler has returned: BullMQ moves the job to completed
Complete(j) ==
  /\ pc[j] = "ack"
  /\ state' = [state EXCEPT ![j] = "completed"]
  /\ pc' = [pc EXCEPT ![j] = "idle"] /\ Drop({j})
  /\ UNCHANGED <<ledger, api, valid, invalid, rows, runs, made, stalls, faults, crashes>>

\* findOne or save throws, so the handler does: another attempt, or failed
HandlerThrows(j) ==
  /\ pc[j] \in {"find", "select", "update"} /\ faults < MaxFaults
  /\ faults' = faults + 1
  /\ made' = [made EXCEPT ![j] = @ + 1]
  /\ state' = [state EXCEPT ![j] = IF made'[j] < attempts THEN "waiting" ELSE "failed"]
  /\ pc' = [pc EXCEPT ![j] = "idle"] /\ Drop({j})
  /\ UNCHANGED <<ledger, api, valid, invalid, rows, runs, stalls, crashes>>

(* the process, which runs the API and the worker, dies and is restarted *)

Crash ==
  /\ crashes < MaxCrashes /\ crashes' = crashes + 1
  /\ api' = [b \in Batch |-> IF api[b] = "saved" THEN "refused" ELSE api[b]]
  /\ state' = [j \in Job |-> IF state[j] = "active" THEN "stalled" ELSE state[j]]
  /\ pc' = [j \in Job |-> "idle"] /\ Drop(Job)
  /\ UNCHANGED <<ledger, valid, invalid, rows, runs, made, stalls, faults>>

\* the stalled check of BullMQ
Recover(j) ==
  /\ state[j] = "stalled"
  /\ stalls' = [stalls EXCEPT ![j] = @ + 1]
  /\ state' = [state EXCEPT ![j] = IF stalls'[j] > maxStalledCount THEN "failed" ELSE "waiting"]
  /\ UNCHANGED <<ledger, api, valid, invalid, rows, pc, runs, made, mem, dirty, faults, crashes>>

-----------------------------------------------------------------------------
submitBulk(b) == SaveBatch(b) \/ Enqueue(b)

processJob(j) == \/ FindBatch(j) \/ CreateOrder(j) \/ OrderDone(j)
                 \/ SelectBatch(j) \/ UpdateBatch(j)

Next == \/ \E b \in Batch : submitBulk(b) \/ EnqueueFails(b)
        \/ \E j \in Job : Take(j) \/ processJob(j) \/ Complete(j) \/ HandlerThrows(j) \/ Recover(j)
        \/ Crash

Spec == Init /\ [][Next]_vars

\* A started submitBulk goes on, BullMQ hands out its jobs and looks for
\* stalled ones, and an await of a handler ends.  Nobody has to submit.
FairSpec == /\ Spec
            /\ \A b \in Batch : WF_vars(Enqueue(b))
            /\ \A j \in Job : /\ WF_vars(Take(j)) /\ WF_vars(processJob(j))
                              /\ WF_vars(Complete(j)) /\ WF_vars(Recover(j))

-----------------------------------------------------------------------------
TypeOK ==
  /\ LedgerTypeOK
  /\ api \in [Batch -> {"none", "saved", "accepted", "refused"}]
  /\ valid \in [Batch -> Payload \cup {<< >>}]
  /\ invalid \in [Batch -> 0..MaxInvalid]
  /\ rows \in [Batch -> Row]
  /\ state \in [Job -> {"none", "waiting", "active", "stalled", "completed", "failed"}]
  /\ pc \in [Job -> {"idle", "find", "create", "select", "update", "ack"}]
  /\ runs \in [Job -> 0..MaxRuns]
  /\ made \in [Job -> 0..attempts]
  /\ stalls \in [Job -> 0..maxStalledCount + 1]
  /\ mem \in [Job -> Row]
  /\ dirty \in [Job -> SUBSET Column]
  /\ faults \in 0..MaxFaults
  /\ crashes \in 0..MaxCrashes

jobsOf(b) == {j \in Job : j[1] = b /\ j[2] \in ordersOf(b)}

RunsOf(j) == {run(j, n) : n \in 1..MaxRuns}

(* A result SUCCESS stands for an order of this very batch that the        *)
(* courier has booked, also when the job was run again after a crash or a  *)
(* failed save, or another batch carried the same order_id                 *)
(* (batch.worker.ts:39).                                                   *)
SuccessIsBooked ==
  \A b \in Batch : \A i \in DOMAIN rows[b].results :
    LET r == rows[b].results[i] IN
    r.status = "SUCCESS" => owner[r.ext] \in RunsOf(<<b, r.ext>>) /\ owner[r.ext] \in booked

(* However handlers overlap and lose each other's saves, success_count is  *)
(* never above the orders the batch did create: the counter errs only      *)
(* downwards (batch.worker.ts:46, 75).                                     *)
SuccessCountNeverInflated ==
  \A b \in Batch :
    rows[b].successCount <=
      Cardinality({j \in jobsOf(b) : \E c \in RunsOf(j) : outcome[c] = "created"})

Done(j) == pc[j] = "ack" \/ state[j] = "completed"

(* Until the process first dies, a batch is COMPLETED only when every one  *)
(* of its jobs has saved its result: stale saves of overlapping handlers   *)
(* keep pending_count too high, never too low (batch.worker.ts:69-73).  A  *)
(* job that is run again after a death may be counted twice.               *)
CompletedMeansDone ==
  crashes = 0 =>
    \A b \in Batch : rows[b].status = "COMPLETED" => \A j \in jobsOf(b) : Done(j)

(* When the last job of a batch is done, every one of them and every       *)
(* invalid order is counted (order_creation_sequence.puml:81, "Increment   *)
(* success/failure counts"): nothing is lost and nothing counted twice.    *)
CountsEveryJob ==
  \A b \in Batch :
    api[b] = "accepted" /\ (\A j \in jobsOf(b) : state[j] = "completed") =>
      rows[b].successCount + rows[b].failureCount = Cardinality(jobsOf(b)) + invalid[b]

(* With one job at a time the table, the queue and the handler implement   *)
(* the tally: each save counts one order more and completes the batch with *)
(* the last, through failed saves and further attempts                     *)
(* (batch.worker.ts:29-75).                                                *)
Tally == INSTANCE BatchTally WITH
           total     <- [b \in Batch |-> IF api[b] = "none" THEN 0 ELSE Len(valid[b]) + invalid[b]],
           counted   <- [b \in Batch |-> rows[b].successCount + rows[b].failureCount],
           completed <- [b \in Batch |-> api[b] # "none" /\ rows[b].status = "COMPLETED"]

RefinesTally == Tally!TallySpec

\* no order_id stands twice among the valid orders of the batch
EachOnce(b) == \A i, k \in DOMAIN valid[b] : valid[b][i] = valid[b][k] => i = k

(* The jobs of a batch complete it unless its request repeats an order_id: *)
(* the row counts every valid order as pending, the queue ignores a jobId  *)
(* it knows, and the one job takes off one (batch.service.ts:94, 112,      *)
(* batch.worker.ts:69-73).  Such a batch stays PROCESSING for good.        *)
CompletesUnlessRepeated ==
  \A b \in Batch :
    api[b] = "accepted" /\ (\A j \in jobsOf(b) : state[j] = "completed") =>
      (rows[b].status = "COMPLETED" <=> EachOnce(b))

(* A batch that was accepted is COMPLETED in the end, though the database  *)
(* fails fewer times than a job has attempts, unless it repeats an         *)
(* order_id (batch.worker.ts:39-75).                                       *)
BatchCompletes ==
  \A b \in Batch :
    api[b] = "accepted" /\ EachOnce(b) ~> rows[b].status = "COMPLETED"

(* A job that was enqueued ends, whatever crashes and faults it meets: it  *)
(* is neither lost nor run for ever (DESIGN.md:163-164).                   *)
EveryJobEnds ==
  \A j \in Job : state[j] = "waiting" ~> state[j] \in {"completed", "failed"}

-----------------------------------------------------------------------------
(* Claims of DESIGN.md                                                     *)

(* DESIGN.md:165, a re-attempted job will "only process those that had not *)
(* yet succeeded": no order whose row a job wrote is left without an       *)
(* outcome when the job is completed.                                      *)
ReattemptProcesses ==
  \A j \in Job : state[j] = "completed" /\ owner[j[2]] \in RunsOf(j) => outcome[owner[j[2]]] # "none"
=============================================================================
