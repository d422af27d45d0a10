------------------------------- MODULE Server -------------------------------
(***************************************************************************)
(* Processes of the service (server.ts): bootstrap, the way of a request   *)
(* through the middleware to its handler (app.ts, *.routes.ts), jobs of    *)
(* the bulk worker, and the shutdown that a signal starts.  The limiters   *)
(* are RateLimits; what a handler or a job does is in Orders, Batches and  *)
(* Auth.                                                                   *)
(*                                                                         *)
(* External: Node's server.close calls back when the last connection has   *)
(* gone, closes the idle ones itself, and lets a busy one send further     *)
(* requests after its answer; a client that gives up closes its connection *)
(* while the limiters and the handler of its request run on; worker.close  *)
(* waits for the active jobs; a second DataSource.destroy fails while the  *)
(* first is under way; commands to Redis wait while it is away             *)
(* (maxRetriesPerRequest: null), and the client is connecting before       *)
(* initRedis looks at it, because the stores of the limiters send it their *)
(* scripts when app.ts is loaded.                                          *)
(***************************************************************************)
EXTENDS RateLimits, FiniteSets

CONSTANTS
  Proc,        \* processes
  Conn,        \* connections of clients
  ipOf,        \* connection -> address
  Job,         \* jobs of the bulk queue
  Asked,       \* bound: the routes that clients ask for
  MaxSignals,  \* bound: signals one process gets
  MaxStarts,   \* bound: processes started, over all of Proc
  MaxFaults,   \* bound: steps of a bootstrap or a shutdown that fail, and deaths
  MaxOutages,  \* bound: times Redis goes away
  None

ASSUME ConnAssumption == ipOf \in [Conn -> Ip]
ASSUME NoneAssumption == None \notin Proc
ASSUME BoundAssumption == MaxSignals \in Nat /\ MaxStarts \in Nat /\ MaxFaults \in Nat /\ MaxOutages \in Nat

VARIABLES
  phase,    \* process -> the await of bootstrap it is at
  has,      \* process -> what it has set up and not yet taken down
  task,     \* process -> signal -> the await its shutdown is at
  pc,       \* connection -> the await its request is at
  at,       \* connection -> the process it is open to, or its request runs in
  route,    \* connection -> the route of its request, once it is looked at
  gone,     \* connections that their clients closed while a request was running
  job,      \* job -> its state in the queue
  runner,   \* job -> the process that runs it
  redisUp, outages, starts, faults

process == <<phase, has, task>>
http    == <<pc, at, route, gone>>
bulk    == <<job, runner>>
bounds  == <<redisUp, outages, starts, faults>>
vars    == <<limits, process, http, bulk, bounds>>

-----------------------------------------------------------------------------
Boot   == {"redis", "database", "adapters", "routes"}
Asset  == {"database", "adapters", "worker", "server"}
Stage  == {"none", "close", "worker", "database", "redis", "dead"}
Route  == {"login", "logout", "register", "orders", "batches"}
Busy   == {"global", "limiter", "handler"}
Signal == 1..MaxSignals

ASSUME AskedAssumption == Asked \subseteq Route

\* the limiter of a route; logout and batches have none of their own
limiterOf(r) == CASE r = "login"    -> "auth"
                  [] r = "register" -> "register"
                  [] r = "orders"   -> "courier"
                  [] OTHER          -> "none"

\* jwtAuthMiddleware and rbac stand before the route's limiter
guarded(r) == r \in {"register", "orders", "batches"}

NoTask == [n \in Signal |-> "none"]

Init ==
  /\ LimitsInit
  /\ phase = [p \in Proc |-> "down"] /\ has = [p \in Proc |-> {}]
  /\ task = [p \in Proc |-> NoTask]
  /\ pc = [c \in Conn |-> "closed"] /\ at = [c \in Conn |-> None]
  /\ route = [c \in Conn |-> "none"] /\ gone = {}
  /\ job = [j \in Job |-> "none"] /\ runner = [j \in Job |-> None]
  /\ redisUp = TRUE /\ outages = 0 /\ starts = 0 /\ faults = 0

(* bootstrap *)

\* mutant: the limiters count in the memory of the process
StartForgetting(p) ==
  /\ phase[p] = "down" /\ starts < MaxStarts
  /\ starts' = starts + 1
  /\ phase' = [phase EXCEPT ![p] = "redis"]
  /\ hits' = [i \in Ip |-> 0]
  /\ UNCHANGED <<ttl, admitted, has, task, http, bulk, redisUp, outages, faults>>

Start(p) ==
  /\ phase[p] = "down" /\ starts < MaxStarts
  /\ starts' = starts + 1
  /\ phase' = [phase EXCEPT ![p] = "redis"]
  /\ UNCHANGED <<limits, has, task, http, bulk, redisUp, outages, faults>>

Proceed(p, from, to, assets) ==
  /\ phase[p] = from /\ phase' = [phase EXCEPT ![p] = to]
  /\ has' = [has EXCEPT ![p] = @ \cup assets]
  /\ UNCHANGED <<limits, task, http, bulk, bounds>>

\* the client is no longer in state 'wait', so there is nothing to wait for
initRedis(p) == Proceed(p, "redis", "database", {})

initDatabase(p) == Proceed(p, "database", "adapters", {"database"})

registerCourierAdapters(p) == Proceed(p, "adapters", "routes", {"adapters"})

\* routers, worker, error handlers, app.listen
Listen(p) == Proceed(p, "routes", "serving", {"worker", "server"})

\* what the end of a process does to the others' view
Exit(p) ==
  /\ phase' = [phase EXCEPT ![p] = "down"]
  /\ has' = [has EXCEPT ![p] = {}]
  /\ task' = [task EXCEPT ![p] = NoTask]
  /\ pc' = [c \in Conn |-> IF at[c] = p THEN "closed" ELSE pc[c]]
  /\ at' = [c \in Conn |-> IF at[c] = p THEN None ELSE at[c]]
  /\ route' = [c \in Conn |-> IF at[c] = p THEN "none" ELSE route[c]]
  /\ gone' = {c \in gone : at[c] # p}
  /\ job' = [j \in Job |-> IF runner[j] = p THEN "stalled" ELSE job[j]]
  /\ runner' = [j \in Job |-> IF runner[j] = p THEN None ELSE runner[j]]

\* a step of bootstrap throws, an exception is not caught, a signal comes
\* before its handler is there, or the process is killed
Die(p) == /\ phase[p] # "down" /\ faults < MaxFaults
          /\ faults' = faults + 1 /\ Exit(p)
          /\ UNCHANGED <<limits, redisUp, outages, starts>>

(* requests *)

\* on a new connection, or on one that was kept alive
Request(c) ==
  /\ \/ /\ pc[c] = "closed"
        /\ \E p \in Proc : "server" \in has[p] /\ at' = [at EXCEPT ![c] = p]
     \/ pc[c] = "open" /\ UNCHANGED at
  /\ pc' = [pc EXCEPT ![c] = "global"]
  /\ UNCHANGED <<limits, process, route, gone, bulk, bounds>>

\* the keep-alive timeout, or the client
HangUp(c) == /\ pc[c] = "open"
             /\ pc' = [pc EXCEPT ![c] = "closed"] /\ at' = [at EXCEPT ![c] = None]
             /\ UNCHANGED <<limits, process, route, gone, bulk, bounds>>

\* the client gives up in the middle of its request, which runs on
Abort(c) == /\ pc[c] \in Busy /\ c \notin gone
            /\ gone' = gone \cup {c}
            /\ UNCHANGED <<limits, process, pc, at, route, bulk, bounds>>

\* the connections of a process that are not closed
connected(p) == {c \in Conn : at[c] = p /\ c \notin gone}

\* nobody hears the answer to a request whose client has gone
Answer(c) == /\ pc' = [pc EXCEPT ![c] = IF c \in gone THEN "closed" ELSE "open"]
             /\ at' = [at EXCEPT ![c] = IF c \in gone THEN None ELSE @]
             /\ route' = [route EXCEPT ![c] = "none"]
             /\ gone' = gone \ {c}

GoOn(c, r, where) == /\ pc' = [pc EXCEPT ![c] = where]
                     /\ route' = [route EXCEPT ![c] = r]
                     /\ UNCHANGED <<at, gone>>

\* globalRateLimiter, then the synchronous part of the route's chain
globalRateLimiter(c) ==
  /\ pc[c] = "global" /\ redisUp
  /\ increment(ipOf[c], "global")
  /\ \/ ~admits(ipOf[c], "global") /\ Answer(c)
     \/ /\ admits(ipOf[c], "global")
        /\ \E r \in Asked :
             \/ guarded(r) /\ Answer(c)
             \/ GoOn(c, r, IF limiterOf(r) = "none" THEN "handler" ELSE "limiter")
  /\ UNCHANGED <<process, bulk, bounds>>

\* mutant: the handler of the limiter does not answer
routeLimiterSilent(c) ==
  /\ pc[c] = "limiter" /\ redisUp
  /\ increment(ipOf[c], limiterOf(route[c]))
  /\ admits(ipOf[c], limiterOf(route[c])) /\ GoOn(c, route[c], "handler")
  /\ UNCHANGED <<process, bulk, bounds>>

\* authRateLimiter, registerRateLimiter or courierRateLimiter
routeLimiter(c) ==
  /\ pc[c] = "limiter" /\ redisUp
  /\ increment(ipOf[c], limiterOf(route[c]))
  /\ \/ admits(ipOf[c], limiterOf(route[c])) /\ GoOn(c, route[c], "handler")
     \/ ~admits(ipOf[c], limiterOf(route[c])) /\ Answer(c)
  /\ UNCHANGED <<process, bulk, bounds>>

\* the handler answers; one of the routes under /orders saves a batch and
\* enqueues its jobs
Handle(c) ==
  /\ pc[c] = "handler" /\ Answer(c)
  /\ \/ UNCHANGED job
     \/ /\ route[c] = "orders" /\ redisUp /\ "database" \in has[at[c]]
        /\ \E j \in Job : job[j] = "none" /\ job' = [job EXCEPT ![j] = "waiting"]
  /\ UNCHANGED <<limits, process, runner, bounds>>

(* the worker *)

Closing(p) == \E n \in Signal : task[p][n] \in {"worker", "database", "redis"}

Take(j, p) ==
  /\ job[j] = "waiting" /\ redisUp /\ "worker" \in has[p] /\ ~Closing(p)
  /\ job' = [job EXCEPT ![j] = "active"] /\ runner' = [runner EXCEPT ![j] = p]
  /\ UNCHANGED <<limits, process, http, bounds>>

\* the job is over, or its attempt failed and the queue gives it another
FinishJob(j) ==
  /\ job[j] = "active" /\ redisUp
  /\ \E to \in {"done", "waiting"} : job' = [job EXCEPT ![j] = to]
  /\ runner' = [runner EXCEPT ![j] = None]
  /\ UNCHANGED <<limits, process, http, bounds>>

\* the stalled check of another worker
Recover(j) == /\ job[j] = "stalled" /\ redisUp
              /\ job' = [job EXCEPT ![j] = "waiting"]
              /\ UNCHANGED <<limits, process, http, runner, bounds>>

(* shutdown: one asynchronous task for each signal *)

Step(p, n, stage) == task' = [task EXCEPT ![p][n] = stage]

\* server.close: no new connection, and the idle ones are closed
shutdown(p, n) ==
  /\ phase[p] = "serving" /\ task[p][n] = "none"
  /\ Step(p, n, "close")
  /\ has' = [has EXCEPT ![p] = @ \ {"server"}]
  /\ pc' = [c \in Conn |-> IF at[c] = p /\ pc[c] = "open" THEN "closed" ELSE pc[c]]
  /\ at' = [c \in Conn |-> IF at[c] = p /\ pc[c] = "open" THEN None ELSE at[c]]
  /\ UNCHANGED <<limits, phase, route, gone, bulk, bounds>>

\* the callback of server.close, which waits for connections and not for the
\* handlers of requests whose clients have gone: stopBulkOrderWorker
stopBulkOrderWorker(p, n) ==
  /\ task[p][n] = "close" /\ connected(p) = {}
  /\ Step(p, n, "worker")
  /\ UNCHANGED <<limits, phase, has, http, bulk, bounds>>

\* mutant: worker.close is not awaited
WorkerNotAwaited(p, n) ==
  /\ task[p][n] = "worker"
  /\ has' = [has EXCEPT ![p] = @ \ {"worker"}]
  /\ Step(p, n, "database")
  /\ UNCHANGED <<limits, phase, http, bulk, bounds>>

\* the active jobs are done; then destroy, which fails when it is under way
WorkerClosed(p, n) ==
  /\ task[p][n] = "worker" /\ \A j \in Job : runner[j] # p
  /\ has' = [has EXCEPT ![p] = @ \ {"worker"}]
  /\ Step(p, n, IF "database" \notin has[p] THEN "redis"
                ELSE IF \E m \in Signal : task[p][m] = "database" THEN "dead" ELSE "database")
  /\ UNCHANGED <<limits, phase, http, bulk, bounds>>

DatabaseClosed(p, n) ==
  /\ task[p][n] = "database"
  /\ has' = [has EXCEPT ![p] = @ \ {"database"}]
  /\ Step(p, n, "redis")
  /\ UNCHANGED <<limits, phase, http, bulk, bounds>>

\* mutant: nothing ends the process
QuitOnly(p, n) == /\ task[p][n] = "redis" /\ redisUp /\ Step(p, n, "dead")
                  /\ UNCHANGED <<limits, phase, has, http, bulk, bounds>>

\* redisClient.quit() and process.exit(0)
QuitAndExit(p, n) == /\ task[p][n] = "redis" /\ redisUp /\ Exit(p)
                     /\ UNCHANGED <<limits, bounds>>

\* destroy or quit rejects: the rejection is logged and the task is over
StepFails(p, n) ==
  /\ task[p][n] \in {"database", "redis"} /\ faults < MaxFaults
  /\ faults' = faults + 1 /\ Step(p, n, "dead")
  /\ UNCHANGED <<limits, phase, has, http, bulk, redisUp, outages, starts>>

(* Redis goes away and comes back with its data *)

RedisDown == /\ redisUp /\ outages < MaxOutages
             /\ redisUp' = FALSE /\ outages' = outages + 1
             /\ UNCHANGED <<limits, process, http, bulk, starts, faults>>

RedisBack == /\ ~redisUp /\ redisUp' = TRUE
             /\ UNCHANGED <<limits, process, http, bulk, outages, starts, faults>>

-----------------------------------------------------------------------------
bootstrap(p) == \/ initRedis(p) \/ initDatabase(p) \/ registerCourierAdapters(p) \/ Listen(p)

Serve(c) == globalRateLimiter(c) \/ routeLimiter(c) \/ Handle(c)

ShutdownStep(p, n) == \/ stopBulkOrderWorker(p, n) \/ WorkerClosed(p, n)
                      \/ DatabaseClosed(p, n) \/ QuitAndExit(p, n)

Pass == Tick /\ UNCHANGED <<process, http, bulk, bounds>>

Next == \/ \E p \in Proc : \/ Start(p) \/ bootstrap(p) \/ Die(p)
                           \/ \E n \in Signal : shutdown(p, n) \/ ShutdownStep(p, n) \/ StepFails(p, n)
        \/ \E c \in Conn : Request(c) \/ Serve(c) \/ HangUp(c) \/ Abort(c)
        \/ \E j \in Job : FinishJob(j) \/ Recover(j) \/ \E p \in Proc : Take(j, p)
        \/ RedisDown \/ RedisBack \/ Pass

Spec == Init /\ [][Next]_vars

\* Awaits of handlers, of jobs and of a shutdown end, and Redis comes back.
\* A client that never pauses for the keep-alive timeout would keep its
\* connection, and the process, for ever: strong fairness of HangUp says that
\* no client does.  Nobody has to give up.
FairSpec == /\ Spec
            /\ WF_vars(RedisBack)
            /\ \A c \in Conn : WF_vars(Serve(c)) /\ SF_vars(HangUp(c))
            /\ \A j \in Job : WF_vars(FinishJob(j))
            /\ \A p \in Proc, n \in Signal : WF_vars(ShutdownStep(p, n))

-----------------------------------------------------------------------------
TypeOK ==
  /\ LimitsTypeOK
  /\ phase \in [Proc -> Boot \cup {"down", "serving"}]
  /\ has \in [Proc -> SUBSET Asset]
  /\ task \in [Proc -> [Signal -> Stage]]
  /\ pc \in [Conn -> Busy \cup {"closed", "open"}]
  /\ at \in [Conn -> Proc \cup {None}]
  /\ route \in [Conn -> Route \cup {"none"}]
  /\ gone \subseteq Conn
  /\ job \in [Job -> {"none", "waiting", "active", "stalled", "done"}]
  /\ runner \in [Job -> Proc \cup {None}]
  /\ redisUp \in BOOLEAN
  /\ outages \in 0..MaxOutages /\ starts \in 0..MaxStarts /\ faults \in 0..MaxFaults

InUse(p) == connected(p) # {} \/ (\E j \in Job : runner[j] = p)

(* A process that a client is connected to or that runs a job has its      *)
(* database and its adapters, and is not about to take the database down:  *)
(* bootstrap sets them up before it listens, and shutdown waits for the    *)
(* connections and the jobs before it destroys, for every order in which   *)
(* two signals and their tasks run (server.ts:16-34, 44-54).  The handler  *)
(* of a request whose client has gone is not waited for, and may lose the  *)
(* database in the middle (server.ts:44).                                  *)
ResourcesOutliveUse ==
  \A p \in Proc : InUse(p) =>
    /\ {"database", "adapters"} \subseteq has[p]
    /\ \A n \in Signal : task[p][n] \notin {"database", "redis"}

(* A process that was told to stop stops, also when a second signal comes  *)
(* while the first shutdown is under way, when requests and jobs are in    *)
(* flight and when Redis is away for a while - unless a call of the        *)
(* shutdown itself failed for every signal it got (server.ts:42-56).  This *)
(* assumes that clients close their connections, or are idle for as long   *)
(* as keep-alive lasts (SF of HangUp): server.close has no time limit, and *)
(* one client that keeps asking for ever keeps the process.                *)
ShutdownEnds ==
  \A p \in Proc : phase[p] = "serving" /\ "server" \notin has[p] ~>
    \/ phase[p] = "down"
    \/ faults > 0 /\ \A n \in Signal : task[p][n] \in {"none", "dead"}

(* Every request that was received is answered or its process is gone,     *)
(* though it may have to wait for Redis (redis.ts:9).                      *)
EveryRequestEnds == \A c \in Conn : pc[c] \in Busy ~> pc[c] \notin Busy
=============================================================================
