# Verification of the courier integration manager

TLA+ models of the service under `src/`, the TLC configurations that check them
on small instances, and theorems about them that TLAPS proves for every instance.
Paths below are relative to `src/src/` unless they start with `src/`.

## The system

An Express server takes orders from clients, books them with a courier, tracks and
cancels them. PostgreSQL (through TypeORM) holds users, refresh tokens, orders, tracking
events and batches; Redis holds the rate limiters and the BullMQ queue of bulk orders,
whose worker runs in the server's process. Several processes may share both stores.

| Component | State | Operations | Talks to | What must hold |
|---|---|---|---|---|
| Orders service, `modules/orders/order.service.ts` | `orders`, `tracking_events` | createOrder, trackOrder, cancelOrder (and a read) | courier adapter, database | one call per `order_id` reaches the courier, and it books no more than its retries; a row before a shipment; every status has evidence; what a caller is told is true; nothing is lost when requests do not overlap |
| Bulk orders, `modules/batches/` | `batch_jobs`, the queue | submitBulk, the worker's handler | Redis, Orders service | counters agree with the jobs, COMPLETED in the end and not before, no job lost or booked twice |
| Courier HTTP client and token manager, `shared/http.client.ts`, `couriers/urbanebolt/token-manager.ts` | cached token, refresh in flight, retry state of each call | two interceptors, getToken, refreshToken | the courier | one refresh for all, no call without a token, bounded repetition, every call ends |
| UrbaneBolt adapter, mock adapter, registry, `couriers/` | the registry, filled at startup | createOrder, trackOrder, cancelOrder | HTTP client | statuses are normalised; every reply has one of the outcomes the service handles; nothing is served before the registry is filled |
| Authentication, `modules/auth/` | `users`, `refresh_tokens` | register, login, refresh, logout | database | one user per email, tokens only for users and with a row, a signed-out token is not refreshed |
| Access control, routes, validation, errors, logging, request context | none over time | middleware | | stateless checks and formatting |
| Rate limiters, `shared/middleware/rate-limiter.middleware.ts` | one counter per address in Redis | four limiters | Redis | no limiter admits more than its maximum while its key lives, across restarts; the documented limits hold in the documented windows (they do not) |
| Process lifecycle, `server.ts`, `app.ts`, the route files | connections, worker, data source, Redis client | bootstrap, a request's way to its handler, jobs, shutdown | everything | who waits for an answer, and a job, has the database; shutdown ends; every request is answered |
| Credential encryption, schema, seeds, configuration | | | | |

What is hard here, and what the properties are for:

* every `await` gives up the event loop, and nothing locks: the entity a request holds is
  as old as the courier call it waited for, and `repository.save` writes whatever column
  of it differs from the row;
* the courier's booking and the database's record of it are two systems: a crash or
  a fault between them leaves one without the other, and a POST that is sent again may book twice;
* jobs of one batch run up to ten at a time and each rewrites the batch's row;
* BullMQ runs a job again after a failed attempt or a dead worker, over whatever the first
  run left behind;
* calls to the courier share one token, whose loss they find out at different times;
* a signal starts a shutdown while requests and jobs run, and a second signal starts another; a client that gives up
  leaves a handler behind that the shutdown does not wait for;
* every request waits for Redis at its limiter, and all limiters of all processes count in
  one key per address.

`PROJECT.json` lists the hazards line by line, with the properties that cover each.

## Modules

| Module | Models | Composition |
|---|---|---|
| `Orders` | `OrderService`, the adapter and the courier as it sees them | implements `OrderLedger` (`RefinesLedger`) |
| `OrderLedger` | what createOrder promises, apart from how | used by `Batches`, refined by `Orders` |
| `Batches` | `BulkOrderService`, the queue, the worker's handler | EXTENDS `OrderLedger`: a run of a job is a caller of it; implements `BatchTally` when jobs run one at a time (`RefinesTally`) |
| `BatchTally` | what a client that polls a batch is promised | refined by `Batches` |
| `CourierHttp` | the HTTP client's interceptors over the token manager | stands alone; `Orders` sees its outcomes only |
| `Auth` | `AuthService` with `JwtUtils` | implements `Sessions` (`RefinesSessions`) |
| `Sessions` | what the service promises of accounts, sessions and access | refined by `Auth` |
| `RateLimits` | the four limiters and the key they share | |
| `Server` | processes: bootstrap, middleware and limiters before the handlers, jobs, shutdown | EXTENDS `RateLimits`; handlers and jobs are one step here and modelled in `Orders`, `Batches`, `Auth` |
| `RegisterWindow` | the documented window of registrations, as a history beside the limiters | EXTENDS `Server` |
| `Orders_proofs`, `Evidence_proofs`, `Tracking_proofs`, `OrderLedger_proofs`, `Batches_proofs`, `CourierHttp_proofs`, `Auth_proofs`, `Server_proofs` | | theorems; `Evidence_proofs` and `Tracking_proofs` continue `Orders_proofs` |
| `MCOrders`, `MCBatches`, `MCCourierHttp`, `MCAuth`, `MCServer`, `MCRegisterWindow` | | instances for TLC |

### From code to actions

A handler is an async function. What it does between two awaits on a store or on
the network is one action; `pc` of a request, job or call names the await it is at. Reads
that need no decision between them and the next await are one action with it.

**Orders.** `orders`, `events` and `placed` are the tables; an order is named by the request
that inserts it, so that the external id is plain data and its uniqueness is
the work of the INSERT and of the UNIQUE column (`ExtTaken`). `mem` is the entity a request
holds, `shipments` and `scans` are the courier's books: how many shipments it has booked for an order, and what it has scanned of it.
`Manifest` is one call of `adapter.createOrder`, within which the HTTP client sends the POST up to `maxRetries + 1` times: with a reply the
last one was acted on, without one perhaps none was, and each of the earlier ones may have been. A row has the columns an operation reads
or a save can lose: status, whether there is an AWB, the canceller, whether there is a failure
reason. `xxxSelect`/`xxxUpdate` are the two round trips of `save` on an entity with an id: TypeORM
reads the row, compares it with the entity, and UPDATEs what differs. `DbFault` makes any
awaited round trip fail without effect and takes the catch block that the code has at
that place; `Crash` ends a request at any await. `stale` is a history variable: requests whose
entity is older than another request's write to the same row.

**Batches.** A job is `<<batch, order_id>>`, as in the code's `jobId`; that is why a repeated `order_id`
gives one job (`EachOnce` is a request without one). `rows` is table `batch_jobs`, `mem` the `BatchJob` entity of a handler, with the same
two-step save. `OrderDone` is the return or the throw of createOrder and puts the result on the entity
(`Count`). `HandlerThrows` is what the queue's three attempts are for, `Crash` the death of the process
(API and worker), `Recover` BullMQ's stalled check.

**CourierHttp.** Calls of the process share `cache`, `fresh` and `refreshing`. When the refresh ends, the
promise callbacks of everyone who waited run before any other event, so `RefreshSucceeds` and
`RefreshFails` move all waiters at once. `Handle` is the courier: it performs a call or not, answers
or not. Ids of tokens count up; the courier accepts those in `accepted`.

**Auth.** A user is named by the request that registered it, a refresh token by the request that
was given it. `expired` (the JWT) and `overdue` (the row) are separate because `JwtUtils` derives
them from the configuration with different parsers. `late` is a history variable: requests that
began after a logout of their token was answered or after their user was switched off.

**Sessions.** Accounts are opened, and barred by an operator. A call is `admitted` to an account, or `cleared` for access
by an open session, at one moment of its own, and may be given the session or the access later, or nothing. In `Auth` that moment is
the `findOne` of login and refresh and the INSERT of register: what happens to the account or the token during the
`bcrypt.compare` that follows does not change the answer. A session is open (`Live`) while its row is there and neither revoked nor at its
end, by its JWT or by its row.

**BatchTally.** `total`, `counted` and `completed` are what the status route shows of a batch: the size of the
request, `success_count + failure_count`, and whether `status` is COMPLETED. A submit fixes the total and counts
the invalid orders; after that the count goes up by one per order, and the batch is completed by the step that
counts the last.

**RateLimits.** Each of the four limiters has a `RedisStore`, none sets a prefix and all use the address as the
key, so there is one counter (`hits`) and one expiry (`ttl`) per address: whichever limiter finds no key
creates it with its own window, and each compares the shared count with its own maximum. `admitted` is a history
variable: what each limiter has let through since the key was set.

**Server.** `phase` is the await of `bootstrap` a process is at, `has` what it has set up and not taken down
(data source, adapters, worker, listening server), `task` the await each of its shutdowns is at: each
signal starts one. `pc` of a connection is the limiter or handler its request is at, `at` the process it is
open to. A client may close its connection while its request is running (`Abort`); the limiters and the handler go on, and nobody hears the answer.
`connected` are the connections that are left, which are what `server.close` waits for. `guarded` routes may be refused by `jwtAuthMiddleware` or `rbac` before their limiter. `Die` is every sudden
end: a step of bootstrap that throws, an uncaught exception, a signal before its handler is installed,
a kill. `StepFails` is `destroy()` or `quit()` that rejects: `unhandledRejection` logs it and the task is over
without `process.exit`, so the process stays until another signal comes (stage `dead`); a second `destroy` while the first is
under way rejects too. `initRedis` waits for nothing: the stores of the limiters, made when `app.ts` is
loaded, have made the client connect already, so its status is not `wait`. The first limiter waits instead.

**RegisterWindow.** `left` and `granted` are a history beside `Server`: a window that begins with the first registration let
through and lasts `windowMs["register"]`, and the registrations let through in it, whatever becomes of the key. Each step is a step of `Server`;
only time waits for the requests in flight, since its unit here is minutes.

### What the models assume about code outside `src/`

* TypeORM `save` of an entity with an id: SELECT, comparison, UPDATE of the columns that differ, no
  statement when none does. A statement that fails has no effect; an acknowledgement lost after a
  commit is not modelled.
* PostgreSQL enforces UNIQUE at the INSERT.
* axios keeps custom fields of a request's config (`_retryCount`, `_authRetried`) when the same
  config is sent again, as the interceptor relies on.
* BullMQ: a known `jobId` is ignored, `addBulk` is one transaction, `maxStalledCount` is its default 1,
  and a worker that lives is never taken for stalled.
* A courier never gives one AWB to two orders, and does nothing of a request it refuses with a 4xx
  or a 401.
* Two requests never get the same uuid.
* Node's `server.close` stops listening, closes idle connections and calls back when the last one has gone; called a
  second time it calls back as well. A busy connection may carry further requests after its answer.
* BullMQ's `worker.close` takes no new job and waits for the active ones. TypeORM's `destroy` rejects when
  another `destroy` is under way.
* rate-limit-redis increments in one script, atomic in Redis, and leaves the expiry alone
  (`resetExpiryOnChange` is off).
* ioredis with `maxRetriesPerRequest: null` keeps commands until Redis is back, and Redis keeps its data.

## Runs

| Run | Instance | What it checks |
|---|---|---|
| `orders` | 3 requests, 2 external ids, a registered and an unregistered partner, 1 retry of a POST, 1 database fault, scans up to DELIVERED | safety of the three operations together: more than one shipment of an external id is the work of one call and its repeated POST (`RepeatedPostOnly`), the row of an answered create keeps what reconciles its shipment with the courier's books (`ShipmentsAccounted`), an answered tracking has left the whole reply in the trail (`TrailComplete`); and that they implement the ledger |
| `orders_progress` | 3 requests | *violated*: `StatusOnlyProgresses` |
| `orders_audit` | 3 requests | *violated*: `CancelledByNeverErased` |
| `orders_duplicates` | 3 requests, 1 external id, 1 retry | *violated*: `NoDuplicateShipments` |
| `batches_serial` | 2 batches of up to 2 orders, which may be the same one, and 1 invalid one, 1 job at a time, 1 fault | the counts add up, batches complete unless they repeat an `order_id`, SUCCESS is never false, and table, queue and handler implement the tally |
| `batches_overlap` | 1 batch of up to 2 orders, 2 jobs at a time, 2 crashes | both handlers hold the batch's row, overwrite each other's saves and run again after a crash: jobs end, book nothing twice, report and count no success that is not one, take `pending_count` below 0 nowhere, and before the first crash COMPLETED is never too early |
| `batches_lostcount` | 1 batch of 2, 2 at a time, no fault, no crash | *violated*: `CountsEveryJob` |
| `batches_reattempt` | 1 batch of 2, 1 crash | *violated*: `ReattemptProcesses` |
| `http` | 2 calls, 1 retry, 2 revoked tokens, 1 failing refresh, with and without credentials | token sharing, bounded repetition, one revocation never surfaces, every call ends |
| `server` | a process started up to twice, 2 connections of 1 address, 1 job, 2 signals, 1 failing step or death, 1 outage of Redis; clients ask for `orders` | limits, nothing that a client waits for or a job uses is taken down, requests end, shutdown ends |
| `auth` | 4 requests, 2 emails, 1 fault | users, sessions and sign-out under races, faults and crashes, and that the service implements `Sessions` |
| `register_window` | 1 process, 1 address, windows in quarters of an hour, the limit of 5 | *violated*: `RegistersPerHour` |

Why these bounds. Every race in `OrderService` is between two requests on one order: one that
reads and one that writes in between; the third request lets a create, a track and a cancel meet
on one order, and one whole request run before the other two. A second external id is there
for requests that must not interfere. One fault reaches each catch block at each await. One retry of a POST is enough for a
second shipment. For a batch, two
jobs are enough to lose a count, to save an entity over a counted success, and to be counted twice after a crash; a second crash takes a job past
`maxStalledCount`. `batches_overlap` has no fault and one batch, since with them it outgrows five minutes: failing saves
and two batches that share an `order_id` are in `batches_serial`, and `Batches_proofs` covers them all at once. In the HTTP client the interesting case is a 401 that comes back after
the other call has refreshed, for which two calls and two tokens suffice; `maxRetries` 1 keeps the two
retry paths distinct. In `server`, two connections let a request be at a limiter while the other holds up a
shutdown, the second signal may come at each stage of the first shutdown, and the second start shows that
the limits survive a restart. `Asked` are the routes that clients ask for:
`orders` has the longest way (guarded, a limiter of its own, a handler that may enqueue), every other one skips a part of it. With limits of 2 both of its limiters admit and refuse, and count in the key together. There is one process at a time; that
several share the key in Redis is in `Ceiling`, which is proved for any number. `MaxHits` lies above each limit, where no
limiter can tell counts apart. `register_window` has the code's windows, the courier's minute rounded up, and its limit of registrations. Four requests of `Auth` are a register, a logout and two that race on either.
Symmetry is used in `orders` and `auth` only, over requests (and emails), which no definition tells apart
and neither run checks liveness.

`CHECK_DEADLOCK FALSE` stands where a system may stop: a request that is answered is over and the
number of requests is finite.

### Fairness

Four specifications state fairness; safety runs of `Orders` and `Auth` use none.

* `Batches!FairSpec`: weak fairness: an accepted submit goes on to its `addBulk`, BullMQ hands out waiting jobs and
  runs its stalled check, a handler's awaits end.
* `CourierHttp!FairSpec`: weak fairness of calls that are under way and of the refresh, because both axios clients have a
  timeout and the backoff is finite; `Begin`, `Expire` and `Revoke` are not fair.
* `Server!FairSpec`: weak fairness of handlers and limiters, of jobs, of the steps of a shutdown, and of Redis coming
  back; nothing has to start, fail or be signalled. `HangUp` has strong fairness: a client that
  always sends its next request before the keep-alive timeout keeps its connection, and with it the process, for ever, since
  `server.close` closes idle connections only at the moment it is called and nothing in `server.ts` limits
  the wait. `ShutdownEnds` holds only under the assumption that no client does that. `Abort` is not fair: no client has to give up.
* `Orders!FairSpec` (a request in flight goes on) is what `orders_progress` and `orders_audit` use. No liveness of `Orders` is
  checked: `RequestsAdvance` proves that every step of a request leads on and none leads back but the loop over a reply, which is finite.

### What the violated runs show

* `orders_duplicates`: the courier acts on a POST and its answer is lost or is a 5xx; `http.client.ts:73-95` sends the POST again and
  the courier acts on that too: two shipments of one external id, against `src/DESIGN.md:9`, "no duplicate shipments even under
  retry storms". `RepeatedPostOnly` is the other half: no second call ever reaches the courier, so nothing but the repeated POST does it, and
  `NoRetriesNoDuplicates` proves the claim for `maxRetries = 0`. Whether the courier refuses a second manifest of one order number
  is not in the repository. `CourierHttp!OncePerRetry` bounds the same from the client's side: 1 + `maxRetries` acts, not one.
* `orders_progress`: `order.service.ts:127` says "if it has progressed", the code saves any status
  that differs. An empty reply makes an order IN_TRANSIT and the next, MANIFESTED, makes it CREATED again.
* `orders_audit`: createOrder's catch block saves an entity loaded before the courier call. A cancel that ran
  in between is overwritten: status FAILED and `cancelled_by` null, against `src/DESIGN.md:130` and `:273`.
  `OnlyStaleSavesLoseData` is the other half: nothing but such an overlap ever loses them. `ShipmentsAccounted` says how far it
  can go: one stale save leaves the AWB, the reason of the failure or the canceller. Only two stale
  saves lose everything, which takes four requests on one order: a cancel loads it before the create has saved its AWB, a tracking
  afterwards; another cancel saves, and the tracking's SELECT sees that canceller; then the first cancel's UPDATE takes the AWB away and
  the tracking's UPDATE the canceller.
* `batches_lostcount`: two handlers read the batch's row, and the second save overwrites the
  first: one result is gone and `pending_count` stays at 1, so the batch never becomes COMPLETED. The
  default concurrency is 10. `batches_serial` shows that with concurrency 1 the counts are right.
* `batches_reattempt`: a job whose process died after the INSERT meets its own row, records DUPLICATE and
  completes; the order is never booked, against `src/DESIGN.md:165`. `ReattemptsComplete` proves that it takes a crash, and
  `AbandonedBounded` that one crash abandons at most `concurrency` orders.
* `register_window`: `globalRateLimiter` runs first and sets the one key of the address with its window of 15 minutes, so the hour of
  `registerRateLimiter` never applies. Global and register limiter both count, so the limit of 5 lets 2 registrations through in each life of
  the key, which makes 8 an hour: more than the documented 5 (`src/DESIGN.md:203`, `auth.routes.ts:13`), and with any other request fewer.

Differences that the models show and no run is spent on: every trackOrder appends the whole
reply of the courier again (`order.service.ts:115-125`); a failed courier cancellation is logged and
not stored (`:168-171`); the worker catches createOrder's errors, so the queue's attempts never apply to them
(`batch.worker.ts:47`); two orders with one `order_id` in one request make one job, and the batch waits for two and stays PROCESSING
(`batch.service.ts:94`, `:112`; `CompletesUnlessRepeated` and `OnlyRepeatedOrdersLackJobs` say that nothing else does);
a request whose client has given up keeps no connection open, so a shutdown destroys the database under its
handler (`server.ts:44-50`, `Abort`): createOrder may then have booked and cannot save, which in `Orders` is a fault or a crash;
the limiters share one key, so an order or a login counts twice (global and its own limiter), the calls of one kind use up the
limits of the others, and `/batches` has no limiter of its own though `src/DESIGN.md:204` names it;
logout answers 200 when its UPDATE failed (`auth.service.ts:85`); refresh does not look at
`isActive`, so a user who was switched off keeps getting access tokens until the refresh token ends (`:63`).

## Proofs

The theorems hold for any number of requests, external ids, partners, batches, jobs, calls, emails, processes, connections,
signals, limits and faults. They rest on the ASSUMEs of the modules: `None` is none of the ids, bounds are
naturals, registered partners are partners, `ScanPath` is a sequence of raw statuses, callers of the ledger in
`Batches` are the runs of its jobs, windows are positive and `MaxHits` lies above every limit. `NoRetriesNoDuplicates` and some theorems of `Batches_proofs`
have premises of their own, named below.

* **Orders_proofs.** The invariant has four parts. `TypeInv`: types, and a request in flight has a target.
  `PlacedInv`: rows have distinct external ids, a request past its INSERT has its row, shipments have
  rows. It is needed because `RepeatedPostOnly` says nothing of rows that are not shipped yet,
  and two of those could be shipped next. `FreshInv`: an entity that is not stale has all that its row
  has of AWB, canceller and cancellation. `ToldInv`: nobody is answered in flight and a 201 is on its way only for
  a booked order. From it follow `ShipmentsRecorded`, `ShipmentsBounded` (with `BookedInv`: before
  its POSTs an order has no shipment, and the one step that sends them books at most one for each), hence `NoRetriesNoDuplicates`, `OnlyStaleLoses` (an
  UPDATE that loses something wrote from an entity that lacks it, so a stale one) and `Refinement`: the
  owner of an external id is read off the rows, INSERT maps to Claim, the courier's booking
  to Book, answers to Created, Duplicate and Fail, every other step to a stutter.
* **Evidence_proofs**, on top of that invariant. `Evidence` (`StatusHasEvidence`): a save writes any mixture of the columns of a
  stale entity and of the row, so it must be excluded that a FAILED without an event outlives its reason. Only
  the last save of a create says FAILED without an event, always with the reason (`CreateHeld`), and until then the
  row has no reason and a backed status (`RowOK`). A save that takes the reason away saw it at its SELECT, so the
  create was over: it writes a status of its own, which is backed by the event its request saved first, or leaves
  the row's, which equalled its own then and can only have been overwritten by backed ones since (`OtherHeld`).
  `CreatedBacked`: rows, shipments and events are never removed. `FailureRecorded`: as long as the database answers, an
  order whose create has not been confirmed has no AWB, so what goes on beside the create only reads or cancels (`Beside`),
  the row is CREATED or CANCELLED, and the create's UPDATE is sure to write its FAILED (`Failing`).
  `ShipmentsReconcilable` (`ShipmentsAccounted`): the invariant follows the AWB. `UnsavedOK`: until the create saves it, nobody else's entity has it, so that
  nobody tracks, and the create's UPDATE is sure to write it. `TraceOK`: from then on the row has it, or a stale cancellation took it
  (`LateCancel`) and its canceller is in its place, or two stale requests have been at the order (`TwoStale`). For the step between the
  last two, `EntityOK` and `CancellerOK` say that a cancellation always writes its canceller, and that a canceller seen in a row or in another
  entity has saved, so that a stale save which erases it is a second one. `FailedOK` rests on `Beside` and `Failing` above: as the row has no
  AWB, only cancellations save beside a failing create. TLC checked this invariant before, with three requests and faults and with four,
  and showed that the property without `TwoStale` fails with four.
* **Tracking_proofs**, on top of it too. `LoopOK` follows one loop of trackOrder: what it fetched the courier has recorded, what it has appended
  is in the trail of its order, and it leaves the loop before the end for a fault only: `TrailKept`, for any number of overlapping requests, any reply,
  faults and crashes. `RequestsAdvance` (each step of a request lowers its stage or what is left of its reply) is why every request ends.
* **OrderLedger_proofs.** `LedgerSafety`: an owner owns one id and only owners book, so no external id is booked by two calls. With
  `Refinement` this is what createOrder's callers can rely on, and what `Batches` uses.
* **Batches_proofs.** `CoreInv` (types, the ledger's invariant, and for each job that its state in the queue, its handler and its
  runs agree) gives `TypeCorrect`, and `ImplementsLedger`/`BookedOnce`: what handlers do to orders is what the ledger allows.
  `SuccessInv` carries "a SUCCESS is an order of this batch that is booked" through entities as well as rows, since a stale
  entity is what gets saved: `SuccessBacked`, for any concurrency and crashes. `CountInv` does the same for the count of successes
  (`SuccessNeverInflated`): each handler adds at most one to a value that was right when it read it, and its own job joins the
  set that is counted. `PendingInv` says that the pending count of a row, and of the entity of a handler, covers the jobs that are
  not done (without the handler's own once it has counted): lost updates can only make it larger. Hence
  `CompletedDone`, for any concurrency, until the process first dies; a crash between the save and the acknowledgement makes a job
  count twice. With `concurrency = 1` and `MaxCrashes = 0`, `SerialInv` says that the entity of the one handler is the row, or the
  row with its job counted; so a save is a step of the tally: `ImplementsTally`. `ExactInv` adds that the row counts as pending its jobs that are not
  done and, besides them, the orders that got no job of their own: every job is counted (`EveryJobCounted`), and with `JobsExact`, which has as many jobs as
  orders exactly for `EachOnce` (`OnlyRepeatedOrdersLackJobs`), a batch stays PROCESSING if and only if its request repeats an `order_id`
  (`OnlyRepeatsStayProcessing`). A claim of `DESIGN.md` that a violated run refutes is proved where it does hold:
  `ReattemptsComplete`, until the first crash. It follows from `AbandonedBounded`: an order without an
  outcome whose handler is gone was in createOrder when the process died, and no more than `concurrency` handlers were there (`ActiveBounded`).
  Of the promise that batches complete, the part without fairness is proved:
  `NoJobLost` (the jobs of an accepted batch are in the queue), `GivenUpForCause` (a job fails only after three attempts that the database failed
  or two deaths of the process: `SpentInv` counts what each attempt has spent), `QuietMeansCompleted` (under the premises of `EveryJobCounted`
  and with fewer faults than attempts, an accepted batch without a repeated `order_id` none of whose jobs waits or runs is COMPLETED) and `JobsAdvance` (at most four runs of a job, each step
  of a run forward, completed and failed final).
* **CourierHttp_proofs.** `SendsPaid` and `ActsPaid`: each sending of a call, and each time the courier acts on it, is paid for by the
  first try, a counted retry or (sendings only) the flag of the 401, and a call still to be sent has one of them in hand;
  the bounds themselves are not inductive. `Absorbed`: after one revocation, a call that was
  refused once and refreshed holds a token that the courier accepts, and so would any it is given. `TokensInv`: the cache is empty or
  holds the last token issued; the courier has withdrawn as many tokens as were revoked. `CallsAdvance`: a call has a budget of
  at most 6 (`maxRetries` + 2) steps, six for each retry and for the flag of the 401 still unused, plus the stage it is at; each step of the call and the end of
  a refresh it waits for lowers it, and no other step raises it.
* **Auth_proofs.** `Settled` (an answered request is over, a user is past its INSERT), `Holding` (who is
  about to get tokens holds a user under its email), `HandedOutRows` (tokens handed out have
  rows), `SignedOutRows` (a signed-out token is revoked or expired) and `LateOnItsWay` (a late request is
  not on its way to a grant) make `TypeOK`, `OneUserPerEmail`, `SessionsAreBacked` and `LateIsRefused`
  inductive together. `TypeOK` alone is not: logout revokes a token that must have a row. `ImplementsSessions` is the
  refinement of `Sessions`; beside the invariant it needs `Asked`, that a token with a row was handed out, so that a new token cannot
  be revoked already, and that a registration at its INSERT has an email. For each kind of record a lemma says that a step of one
  call adds or removes that call's own record and leaves the others (`AdmittedStep`, `ClearedStep`, `GivenStep`, `AccountsStep`); then each action is
  one step of `Sessions` or none.
* **Server_proofs.** `LimitsInv`: what a limiter has admitted is at most its maximum and at most the shared count; the second half is
  why a count that other limiters drive up admits too few and never too many (`Ceiling`). `ProcessInv`: for each
  await of bootstrap and of each shutdown, what is set up and what is still in use by clients that are connected and by jobs; from it `ResourcesKept`, for any
  number of signals. `NeverAbandoned`: a process that no longer listens has a shutdown under way, unless a step of each one it was
  sent has failed; `ShutdownsAdvance` and `RequestsAdvance` say that shutdowns and requests only go forward and
  that nothing new comes to a process that is stopping.

Only model-checked: the liveness properties (`BatchCompletes`, `EveryJobEnds`, `EveryCallEnds`, `ShutdownEnds`, `EveryRequestEnds`),
since the prover reasons about neither fairness nor ENABLED; and that the six claims of the violated runs fail. What holds in place of four of them is proved:
`OnlyStaleLoses` for `CancelledByNeverErased`, `ShipmentsBounded` and `NoRetriesNoDuplicates` for `NoDuplicateShipments`, `EveryJobCounted` and
`ReattemptsComplete` under their premises. Of each
of these liveness properties the safety half is proved: a measure of what is left to do, which the steps of the actor lower and no other
step raises; for batches and shutdowns also that whatever is left without work has reached its goal (`QuietMeansCompleted`) or has failed (`NeverAbandoned`). What TLC
adds is that those steps are enabled until the end, and that fairness takes them.

## Not modelled

Validation, errors, logging and configuration have no state over time; whether access control refuses is a choice in `Server`,
since its decision is a signature check and a table of roles. Encryption's substance is AES-GCM. Schema and
seeds run once. The mock adapter and the end-to-end script are stand-ins. Of the UrbaneBolt adapter the mapping of payload
fields is left out: no property tells payloads apart. Durations are represented only as windows of the limiters; backoff, token TTLs and
timeouts are events that may happen at any time. In `Orders`, payload fields, timestamps and the batch id are left out, and so
are reads that change nothing. `Server` gives a job no crash-and-attempt limits (those are in `Batches`) and
Redis no loss of data.

Seven hazards have no property, for the reasons their notes in `PROJECT.json` give: a failure that cannot be saved either (`order.service.ts:81`),
the queue's attempts, which createOrder's errors never reach (`batch.worker.ts:47`), the row of a batch whose jobs could not be enqueued
(`batch.service.ts:114`), the user of a registration whose token could not be saved (`auth.service.ts:108`), a logout whose UPDATE failed (`auth.service.ts:85`), the
handler that a shutdown does not wait for (`server.ts:44`), and the division by a limit of 0 (`order.controller.ts:131`).

## Plan

What is left, in order of worth:

1. Pure modules against reference definitions over bounded inputs: backoff (`http.client.ts:79`), pagination
   (`order.controller.ts:131`), parsing of durations (`jwt.utils.ts`), the table from errors to status codes.
2. `Orders` composed with `CourierHttp`, to see which answers of the interceptors each catch block can meet.
