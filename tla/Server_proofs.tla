---------------------------- MODULE Server_proofs ----------------------------
(***************************************************************************)
(* Theorems about Server and RateLimits, for any processes, connections,   *)
(* addresses, jobs, signals and limits.                                    *)
(***************************************************************************)
EXTENDS Server, TLAPS

-----------------------------------------------------------------------------
(* The limiters                                                            *)

(* Types, and: a limiter has let through no more than were counted, and no *)
(* more than its max.                                                      *)
LimitsInv ==
  /\ LimitsTypeOK
  /\ \A i \in Ip, l \in Limiter : admitted[i][l] <= hits[i] /\ admitted[i][l] <= max[l]

(* No key, nothing admitted.                                               *)
LEMMA LimitsInitInv == LimitsInit => LimitsInv
  <1> SUFFICES ASSUME LimitsInit PROVE LimitsInv
    OBVIOUS
  <1>1. NoneAdmitted \in [Limiter -> Nat] /\ \A l \in Limiter : NoneAdmitted[l] = 0 /\ max[l] \in Nat
    BY LimitAssumption DEF NoneAdmitted
  <1> QED BY <1>1, LimitAssumption DEF LimitsInit, LimitsInv, LimitsTypeOK

(* Counting a request of one address keeps the invariant.                  *)
LEMMA IncrementStep ==
  ASSUME LimitsInv, NEW i \in Ip, NEW l \in Limiter, increment(i, l)
  PROVE  LimitsInv'
  <1>1. /\ hits \in [Ip -> 0..MaxHits] /\ ttl \in [Ip -> Nat] /\ admitted \in [Ip -> [Limiter -> Nat]]
        /\ MaxHits \in Nat /\ max \in [Limiter -> Nat] /\ windowMs \in [Limiter -> Nat \ {0}]
        /\ max[l] \in Nat /\ max[l] < MaxHits /\ hits[i] \in 0..MaxHits /\ ttl[i] \in Nat
    BY LimitAssumption, WindowAssumption DEF LimitsInv, LimitsTypeOK
  <1> DEFINE base == IF ttl[i] = 0 THEN NoneAdmitted ELSE admitted[i]
             new  == admittedAfter(i, l)
  <1>2. /\ hits' = [hits EXCEPT ![i] = totalHits(i)]
        /\ ttl' = [ttl EXCEPT ![i] = windowAfter(i, l)]
        /\ admitted' = [admitted EXCEPT ![i] = new]
    BY DEF increment
  <1>3. /\ totalHits(i) \in 0..MaxHits /\ totalHits(i) >= 1
        /\ windowAfter(i, l) \in Nat
    BY <1>1 DEF totalHits, windowAfter
  <1>4. base \in [Limiter -> Nat] /\ \A k \in Limiter : base[k] <= max[k] /\ base[k] + 1 <= totalHits(i) + 1
        /\ base[k] <= totalHits(i)
    <2>1. CASE ttl[i] = 0
      BY <1>1, <1>3, <2>1 DEF NoneAdmitted
    <2>2. CASE ttl[i] # 0
      <3>1. totalHits(i) >= hits[i]
        BY <1>1, <2>2 DEF totalHits
      <3>2. \A k \in Limiter : admitted[i][k] \in Nat /\ admitted[i][k] <= hits[i] /\ admitted[i][k] <= max[k]
        BY <1>1 DEF LimitsInv
      <3> QED BY <1>1, <1>3, <2>2, <3>1, <3>2
    <2> QED BY <2>1, <2>2
  <1>5. admits(i, l) => base[l] + 1 <= totalHits(i) /\ base[l] + 1 <= max[l]
    <2> SUFFICES ASSUME totalHits(i) <= max[l]
                 PROVE  base[l] + 1 <= totalHits(i)
      BY <1>1, <1>3, <1>4 DEF admits
    <2>1. CASE ttl[i] = 0
      BY <1>1, <2>1 DEF NoneAdmitted, totalHits
    <2>2. CASE ttl[i] # 0
      <3>1. totalHits(i) = hits[i] + 1
        BY <1>1, <2>2 DEF totalHits
      <3>2. admitted[i][l] \in Nat /\ admitted[i][l] <= hits[i]
        BY <1>1 DEF LimitsInv
      <3> QED BY <1>1, <2>2, <3>1, <3>2
    <2> QED BY <2>1, <2>2
  <1>6. new \in [Limiter -> Nat] /\ \A k \in Limiter : new[k] <= totalHits(i) /\ new[k] <= max[k]
    <2>0. new = [base EXCEPT ![l] = IF admits(i, l) THEN base[l] + 1 ELSE base[l]]
      BY DEF admittedAfter
    <2> HIDE DEF base, new
    <2>1. CASE admits(i, l)
      BY <1>1, <1>4, <1>5, <2>0, <2>1
    <2>2. CASE ~admits(i, l)
      BY <1>1, <1>4, <2>0, <2>2
    <2> QED BY <2>1, <2>2
  <1> HIDE DEF new
  <1>7. LimitsTypeOK'
    BY <1>1, <1>2, <1>3, <1>6 DEF LimitsTypeOK
  <1>8. \A k \in Ip : /\ hits'[k] = IF k = i THEN totalHits(i) ELSE hits[k]
                      /\ ttl'[k] = IF k = i THEN windowAfter(i, l) ELSE ttl[k]
                      /\ admitted'[k] = IF k = i THEN new ELSE admitted[k]
    BY <1>1, <1>2
  <1>9. \A k \in Ip, m \in Limiter : admitted'[k][m] <= hits'[k] /\ admitted'[k][m] <= max[m]
    BY <1>6, <1>8 DEF LimitsInv
  <1> QED BY <1>1, <1>3, <1>7, <1>8, <1>9 DEF LimitsInv

(* Time keeps the invariant.                                               *)
LEMMA TickStep ==
  ASSUME LimitsInv, Tick
  PROVE  LimitsInv'
  <1>1. /\ hits \in [Ip -> 0..MaxHits] /\ ttl \in [Ip -> Nat] /\ admitted \in [Ip -> [Limiter -> Nat]]
        /\ MaxHits \in Nat /\ max \in [Limiter -> Nat]
    BY LimitAssumption DEF LimitsInv, LimitsTypeOK
  <1>2. NoneAdmitted \in [Limiter -> Nat] /\ \A l \in Limiter : NoneAdmitted[l] = 0
    BY DEF NoneAdmitted
  <1>3. \A k \in Ip : /\ ttl'[k] = (IF ttl[k] > 0 THEN ttl[k] - 1 ELSE 0) /\ ttl'[k] \in Nat
                      /\ hits'[k] = IF ttl[k] > 1 THEN hits[k] ELSE 0
                      /\ admitted'[k] = IF ttl[k] > 1 THEN admitted[k] ELSE NoneAdmitted
    BY <1>1 DEF Tick
  <1>4. LimitsTypeOK'
    BY <1>1, <1>2, <1>3 DEF Tick, LimitsTypeOK
  <1>5. ASSUME NEW k \in Ip, NEW m \in Limiter PROVE admitted'[k][m] <= hits'[k] /\ admitted'[k][m] <= max[m]
    <2>1. CASE ttl[k] > 1
      BY <1>3, <2>1 DEF LimitsInv
    <2>2. CASE ~(ttl[k] > 1)
      BY <1>1, <1>2, <1>3, <2>2
    <2> QED BY <2>1, <2>2
  <1> QED BY <1>1, <1>3, <1>4, <1>5 DEF LimitsInv

(* A request that waits at a limiter of its route has a route with one.    *)
LimiterInv == /\ route \in [Conn -> Route \cup {"none"}]
              /\ \A c \in Conn : pc[c] = "limiter" => limiterOf(route[c]) \in Limiter

(* Steps of the service count a request, let time pass or leave the keys   *)
(* alone.                                                                  *)
LEMMA LimitsSteps ==
  ASSUME LimiterInv, [Next]_vars
  PROVE  \/ \E c \in Conn, l \in Limiter : increment(ipOf[c], l)
         \/ Tick
         \/ UNCHANGED limits
  <1>1. ASSUME NEW p \in Proc, \/ Start(p) \/ bootstrap(p) \/ Die(p)
        PROVE  UNCHANGED limits
    BY <1>1 DEF Start, bootstrap, initRedis, initDatabase, registerCourierAdapters, Listen, Proceed, Die
  <1>2. ASSUME NEW p \in Proc, NEW n \in Signal, shutdown(p, n) \/ ShutdownStep(p, n) \/ StepFails(p, n)
        PROVE  UNCHANGED limits
    BY <1>2 DEF shutdown, ShutdownStep, stopBulkOrderWorker, WorkerClosed, DatabaseClosed, QuitAndExit, StepFails
  <1>3. ASSUME NEW c \in Conn, globalRateLimiter(c) PROVE increment(ipOf[c], "global") /\ "global" \in Limiter
    BY <1>3 DEF globalRateLimiter, Limiter
  <1>4. ASSUME NEW c \in Conn, routeLimiter(c)
        PROVE  \E l \in Limiter : increment(ipOf[c], l)
    BY <1>4 DEF routeLimiter, LimiterInv
  <1>5. ASSUME NEW c \in Conn, Request(c) \/ Handle(c) \/ HangUp(c) \/ Abort(c) PROVE UNCHANGED limits
    BY <1>5 DEF Request, Handle, HangUp, Abort
  <1>6. ASSUME NEW j \in Job, FinishJob(j) \/ Recover(j) \/ \E p \in Proc : Take(j, p)
        PROVE  UNCHANGED limits
    BY <1>6 DEF FinishJob, Recover, Take
  <1>7. CASE RedisDown \/ RedisBack \/ Pass
    BY <1>7 DEF RedisDown, RedisBack, Pass
  <1>8. CASE UNCHANGED vars
    BY <1>8 DEF vars
  <1> QED BY <1>1, <1>2, <1>3, <1>4, <1>5, <1>6, <1>7, <1>8 DEF Next, Serve

-----------------------------------------------------------------------------
(* Processes                                                               *)

Idle(p) == connected(p) = {} /\ \A j \in Job : runner[j] # p

(* Bootstrap sets up the database and the adapters before anything is      *)
(* served; a shutdown refuses connections first, then waits for those      *)
(* there are, then for the jobs, and only then takes the database down.    *)
ProcessInv(p) ==
  /\ phase[p] # "serving" =>
       /\ \A n \in Signal : task[p][n] = "none"
       /\ {"server", "worker"} \cap has[p] = {} /\ Idle(p)
  /\ phase[p] \in {"adapters", "routes"} => "database" \in has[p]
  /\ phase[p] \in {"routes", "serving"} => "adapters" \in has[p]
  /\ phase[p] = "serving" /\ (\A n \in Signal : task[p][n] \notin {"database", "redis", "dead"}) =>
       "database" \in has[p]
  /\ \A n \in Signal :
       /\ task[p][n] # "none" => "server" \notin has[p]
       /\ task[p][n] \in {"worker", "database", "redis", "dead"} => connected(p) = {}
       /\ task[p][n] \in {"database", "redis", "dead"} => "worker" \notin has[p] /\ Idle(p)

ServerInv == /\ TypeOK /\ LimitsInv /\ LimiterInv
             /\ \A p \in Proc : ProcessInv(p)

(* Before any process is started the invariant holds.                      *)
LEMMA ServerInit == Init => ServerInv
  <1> SUFFICES ASSUME Init PROVE ServerInv
    OBVIOUS
  <1>1. LimitsInv
    BY LimitsInitInv DEF Init
  <1>2. TypeOK
    BY <1>1, BoundAssumption DEF Init, TypeOK, LimitsInv, NoTask, Stage
  <1>3. LimiterInv
    BY DEF Init, LimiterInv
  <1>4. \A p \in Proc : ProcessInv(p)
    BY NoneAssumption DEF Init, ProcessInv, Idle, NoTask, connected
  <1> QED BY <1>1, <1>2, <1>3, <1>4 DEF ServerInv

(* A process whose own state stays, and that gets no connection and no     *)
(* job, keeps its invariant.                                               *)
LEMMA ProcessFrame ==
  ASSUME NEW p \in Proc, ProcessInv(p),
         phase'[p] = phase[p], has'[p] = has[p], task'[p] = task[p],
         connected(p)' \subseteq connected(p),
         \A j \in Job : runner'[j] = p => runner[j] = p
  PROVE  ProcessInv(p)'
  <1>1. /\ Idle(p) => Idle(p)'
        /\ connected(p) = {} => connected(p)' = {}
    BY DEF Idle
  <1> QED BY <1>1 DEF ProcessInv

(* The ranges of the variables, apart from the limiters'.                  *)
ProcessTypeOK ==
  /\ phase \in [Proc -> Boot \cup {"down", "serving"}]
  /\ has \in [Proc -> SUBSET Asset]
  /\ task \in [Proc -> [Signal -> Stage]]
HttpTypeOK ==
  /\ pc \in [Conn -> Busy \cup {"closed", "open"}]
  /\ at \in [Conn -> Proc \cup {None}]
  /\ route \in [Conn -> Route \cup {"none"}]
  /\ gone \subseteq Conn
BulkTypeOK ==
  /\ job \in [Job -> {"none", "waiting", "active", "stalled", "done"}]
  /\ runner \in [Job -> Proc \cup {None}]
BoundsTypeOK ==
  redisUp \in BOOLEAN /\ outages \in 0..MaxOutages /\ starts \in 0..MaxStarts /\ faults \in 0..MaxFaults

(* TypeOK by its parts.                                                    *)
LEMMA TypeParts ==
  /\ TypeOK <=> LimitsTypeOK /\ ProcessTypeOK /\ HttpTypeOK /\ BulkTypeOK /\ BoundsTypeOK
  /\ TypeOK' <=> LimitsTypeOK' /\ ProcessTypeOK' /\ HttpTypeOK' /\ BulkTypeOK' /\ BoundsTypeOK'
  <1>1. TypeOK <=> LimitsTypeOK /\ ProcessTypeOK /\ HttpTypeOK /\ BulkTypeOK /\ BoundsTypeOK
    BY DEF TypeOK, ProcessTypeOK, HttpTypeOK, BulkTypeOK, BoundsTypeOK
  <1>2. TypeOK' <=> LimitsTypeOK' /\ ProcessTypeOK' /\ HttpTypeOK' /\ BulkTypeOK' /\ BoundsTypeOK'
    BY DEF TypeOK, ProcessTypeOK, HttpTypeOK, BulkTypeOK, BoundsTypeOK
  <1> QED BY <1>1, <1>2

(* What does not change keeps its type.                                    *)
LEMMA TypesKept ==
  /\ ProcessTypeOK /\ UNCHANGED process => ProcessTypeOK'
  /\ HttpTypeOK /\ UNCHANGED http => HttpTypeOK'
  /\ BulkTypeOK /\ UNCHANGED bulk => BulkTypeOK'
  /\ BoundsTypeOK /\ UNCHANGED bounds => BoundsTypeOK'
  BY DEF ProcessTypeOK, HttpTypeOK, BulkTypeOK, BoundsTypeOK, process, http, bulk, bounds

PartsOK == ProcessTypeOK' /\ HttpTypeOK' /\ BulkTypeOK' /\ BoundsTypeOK'

ProcessesOK == LimiterInv' /\ \A p \in Proc : ProcessInv(p)'

(* Nothing but processes' own state changes: the limiters' routes stay.    *)
LEMMA LimiterFrame == LimiterInv /\ UNCHANGED <<pc, route>> => LimiterInv'
  BY DEF LimiterInv

(* Bootstrap, one await after the other.                                   *)
LEMMA BootstrapStep ==
  ASSUME ServerInv, NEW p \in Proc, Start(p) \/ bootstrap(p)
  PROVE  PartsOK /\ ProcessesOK
  <1>0. ProcessTypeOK /\ HttpTypeOK /\ BulkTypeOK /\ BoundsTypeOK /\ LimiterInv /\ \A q \in Proc : ProcessInv(q)
    BY TypeParts DEF ServerInv
  <1>1. PICK to \in Boot \cup {"serving"}, assets \in SUBSET Asset :
          /\ phase' = [phase EXCEPT ![p] = to] /\ has' = [has EXCEPT ![p] = @ \cup assets]
          /\ \/ phase[p] = "down" /\ to = "redis" /\ assets = {}
             \/ phase[p] = "redis" /\ to = "database" /\ assets = {}
             \/ phase[p] = "database" /\ to = "adapters" /\ assets = {"database"}
             \/ phase[p] = "adapters" /\ to = "routes" /\ assets = {"adapters"}
             \/ phase[p] = "routes" /\ to = "serving" /\ assets = {"worker", "server"}
    <2>1. CASE Start(p)
      <3>1. phase' = [phase EXCEPT ![p] = "redis"] /\ has' = [has EXCEPT ![p] = @ \cup {}] /\ phase[p] = "down"
        BY <1>0, <2>1 DEF Start, ProcessTypeOK
      <3> QED BY <3>1 DEF Boot
    <2>2. CASE initRedis(p)
      BY <2>2 DEF initRedis, Proceed, Boot
    <2>3. CASE initDatabase(p)
      BY <2>3 DEF initDatabase, Proceed, Boot, Asset
    <2>4. CASE registerCourierAdapters(p)
      BY <2>4 DEF registerCourierAdapters, Proceed, Boot, Asset
    <2>5. CASE Listen(p)
      BY <2>5 DEF Listen, Proceed, Asset
    <2> QED BY <2>1, <2>2, <2>3, <2>4, <2>5 DEF bootstrap
  <1>2. UNCHANGED <<task, pc, at, route, gone, job, runner>>
    BY DEF Start, bootstrap, initRedis, initDatabase, registerCourierAdapters, Listen, Proceed, http, bulk
  <1>3. BoundsTypeOK'
    <2>1. CASE Start(p)
      BY <1>0, <2>1, BoundAssumption DEF Start, BoundsTypeOK
    <2>2. CASE bootstrap(p)
      BY <1>0, <2>2, TypesKept DEF bootstrap, initRedis, initDatabase, registerCourierAdapters, Listen, Proceed
    <2> QED BY <2>1, <2>2
  <1>4. ProcessTypeOK'
    BY <1>0, <1>1, <1>2 DEF ProcessTypeOK
  <1>5. HttpTypeOK' /\ BulkTypeOK' /\ LimiterInv'
    BY <1>0, <1>2, TypesKept, LimiterFrame DEF http, bulk
  <1>6. ProcessInv(p)'
    <2>1. phase'[p] = to /\ has'[p] = has[p] \cup assets /\ task'[p] = task[p] /\ (Idle(p) => Idle(p)')
      BY <1>0, <1>1, <1>2 DEF ProcessTypeOK, Idle, connected
    <2>2. phase[p] # "serving" /\ ProcessInv(p)
      BY <1>0, <1>1
    <2>3. (\A n \in Signal : task'[p][n] = "none") /\ Idle(p)' /\ {"server", "worker"} \cap has[p] = {}
      BY <2>1, <2>2 DEF ProcessInv
    <2>4. to \in {"adapters", "routes", "serving"} => "database" \in has'[p]
      BY <1>1, <2>1, <2>2 DEF ProcessInv
    <2>5. to \in {"routes", "serving"} => "adapters" \in has'[p]
      BY <1>1, <2>1, <2>2 DEF ProcessInv
    <2>6. to # "serving" => {"server", "worker"} \cap has'[p] = {}
      BY <1>1, <2>1, <2>3
    <2> QED BY <2>1, <2>3, <2>4, <2>5, <2>6 DEF ProcessInv
  <1>7. ASSUME NEW q \in Proc, q # p PROVE ProcessInv(q)'
    <2>1. phase'[q] = phase[q] /\ has'[q] = has[q] /\ task'[q] = task[q]
      BY <1>0, <1>1, <1>2, <1>7 DEF ProcessTypeOK
    <2>2. connected(q)' = connected(q)
      BY <1>2 DEF connected
    <2> QED BY <1>0, <1>2, <2>1, <2>2, ProcessFrame
  <1> QED BY <1>3, <1>4, <1>5, <1>6, <1>7 DEF PartsOK, ProcessesOK

(* The end of a process takes its connections and its jobs' runs with it.  *)
LEMMA ExitStep ==
  ASSUME ServerInv, NEW p \in Proc, Exit(p)
  PROVE  ProcessTypeOK' /\ HttpTypeOK' /\ BulkTypeOK' /\ ProcessesOK
  <1>0. ProcessTypeOK /\ HttpTypeOK /\ BulkTypeOK /\ LimiterInv /\ \A q \in Proc : ProcessInv(q)
    BY TypeParts DEF ServerInv
  <1>1. /\ phase' = [phase EXCEPT ![p] = "down"] /\ has' = [has EXCEPT ![p] = {}]
        /\ task' = [task EXCEPT ![p] = NoTask]
        /\ pc' = [c \in Conn |-> IF at[c] = p THEN "closed" ELSE pc[c]]
        /\ at' = [c \in Conn |-> IF at[c] = p THEN None ELSE at[c]]
        /\ route' = [c \in Conn |-> IF at[c] = p THEN "none" ELSE route[c]]
        /\ gone' = {c \in gone : at[c] # p}
        /\ job' = [j \in Job |-> IF runner[j] = p THEN "stalled" ELSE job[j]]
        /\ runner' = [j \in Job |-> IF runner[j] = p THEN None ELSE runner[j]]
    BY DEF Exit
  <1>2. NoTask \in [Signal -> Stage] /\ \A n \in Signal : NoTask[n] = "none"
    BY DEF NoTask, Stage
  <1>3. ProcessTypeOK'
    BY <1>0, <1>1, <1>2 DEF ProcessTypeOK
  <1>4. HttpTypeOK'
    BY <1>0, <1>1 DEF HttpTypeOK
  <1>5. BulkTypeOK'
    BY <1>0, <1>1 DEF BulkTypeOK
  <1>6. LimiterInv'
    <2>1. route' \in [Conn -> Route \cup {"none"}]
      BY <1>4 DEF HttpTypeOK
    <2>2. ASSUME NEW c \in Conn, pc'[c] = "limiter" PROVE limiterOf(route'[c]) \in Limiter
      <3>1. at[c] # p
        BY <1>1, <2>2
      <3>2. pc[c] = "limiter" /\ route'[c] = route[c]
        BY <1>1, <2>2, <3>1
      <3> QED BY <1>0, <3>2 DEF LimiterInv
    <2> QED BY <2>1, <2>2 DEF LimiterInv
  <1>7. ProcessInv(p)'
    <2>1. phase'[p] = "down" /\ has'[p] = {} /\ task'[p] = NoTask
      BY <1>0, <1>1 DEF ProcessTypeOK
    <2>2. Idle(p)'
      BY <1>1, NoneAssumption DEF Idle, connected
    <2> QED BY <1>2, <2>1, <2>2 DEF ProcessInv
  <1>8. ASSUME NEW q \in Proc, q # p PROVE ProcessInv(q)'
    <2>1. phase'[q] = phase[q] /\ has'[q] = has[q] /\ task'[q] = task[q]
      BY <1>0, <1>1, <1>8 DEF ProcessTypeOK
    <2>2. connected(q)' \subseteq connected(q) /\ \A j \in Job : runner'[j] = q => runner[j] = q
      BY <1>1, <1>8, NoneAssumption DEF connected
    <2> QED BY <1>0, <2>1, <2>2, ProcessFrame
  <1> QED BY <1>3, <1>4, <1>5, <1>6, <1>7, <1>8 DEF ProcessesOK

(* A process dies.                                                         *)
LEMMA DieStep ==
  ASSUME ServerInv, NEW p \in Proc, Die(p)
  PROVE  PartsOK /\ ProcessesOK
  <1>1. BoundsTypeOK'
    BY TypeParts, BoundAssumption DEF ServerInv, Die, BoundsTypeOK
  <1> QED BY <1>1, ExitStep DEF Die, PartsOK

(* An answer leaves the connection open to its process, unless the client  *)
(* has gone.                                                               *)
LEMMA AnswerShape ==
  ASSUME HttpTypeOK, NEW c \in Conn, Answer(c)
  PROVE  /\ \E w \in {"closed", "open"} : pc' = [pc EXCEPT ![c] = w]
         /\ route' = [route EXCEPT ![c] = "none"]
         /\ \/ c \in gone /\ at' = [at EXCEPT ![c] = None] /\ gone' = gone \ {c}
            \/ c \notin gone /\ at' = at /\ gone' = gone
  <1>1. CASE c \in gone
    BY <1>1 DEF Answer
  <1>2. CASE c \notin gone
    BY <1>2 DEF Answer, HttpTypeOK
  <1> QED BY <1>1, <1>2

(* A step of a request leaves its connection where it is or closes it.     *)
LEMMA ServeShape ==
  ASSUME HttpTypeOK, NEW c \in Conn, Serve(c)
  PROVE  /\ \E w \in Busy \cup {"closed", "open"} : pc' = [pc EXCEPT ![c] = w]
         /\ \E r \in Route \cup {"none"} : route' = [route EXCEPT ![c] = r]
         /\ \/ at' = [at EXCEPT ![c] = None] /\ gone' = gone \ {c}
            \/ at' = at /\ gone' = gone
  <1>1. ASSUME NEW r \in Route \cup {"none"}, NEW w \in Busy, GoOn(c, r, w)
        PROVE  /\ pc' = [pc EXCEPT ![c] = w] /\ route' = [route EXCEPT ![c] = r]
               /\ at' = at /\ gone' = gone
    BY <1>1 DEF GoOn
  <1>2. Answer(c) \/ \E r \in Route \cup {"none"}, w \in Busy : GoOn(c, r, w)
    <2>1. CASE globalRateLimiter(c)
      BY <2>1, AskedAssumption DEF globalRateLimiter, Busy
    <2>2. CASE routeLimiter(c)
      BY <2>2 DEF routeLimiter, Busy, HttpTypeOK
    <2>3. CASE Handle(c)
      BY <2>3 DEF Handle
    <2> QED BY <2>1, <2>2, <2>3 DEF Serve
  <1>3. CASE Answer(c)
    BY <1>3, AnswerShape
  <1>4. CASE \E r \in Route \cup {"none"}, w \in Busy : GoOn(c, r, w)
    BY <1>1, <1>4
  <1> QED BY <1>2, <1>3, <1>4

(* Nobody is connected anew but by a request.                              *)
LEMMA ConnectedShrinks ==
  ASSUME ServerInv, NEW c \in Conn, HangUp(c) \/ Abort(c) \/ Serve(c), NEW p \in Proc
  PROVE  connected(p)' \subseteq connected(p)
  <1>0. HttpTypeOK /\ at \in [Conn -> Proc \cup {None}] /\ None # p
    BY TypeParts, NoneAssumption DEF ServerInv, HttpTypeOK
  <1>1. \/ at' = [at EXCEPT ![c] = None] /\ gone' \in {gone, gone \ {c}}
        \/ at' = at /\ gone \subseteq gone'
    <2>1. CASE HangUp(c)
      BY <2>1 DEF HangUp
    <2>2. CASE Abort(c)
      BY <2>2 DEF Abort
    <2>3. CASE Serve(c)
      BY <1>0, <2>3, ServeShape
    <2> QED BY <2>1, <2>2, <2>3
  <1> QED BY <1>0, <1>1 DEF connected

(* Requests open and close connections, but only to a process that         *)
(* listens.                                                                *)
LEMMA RequestStep ==
  ASSUME ServerInv, NEW c \in Conn, Request(c) \/ HangUp(c) \/ Abort(c) \/ Serve(c)
  PROVE  PartsOK /\ ProcessesOK
  <1>0. ProcessTypeOK /\ HttpTypeOK /\ BulkTypeOK /\ BoundsTypeOK /\ LimiterInv /\ \A q \in Proc : ProcessInv(q)
    BY TypeParts DEF ServerInv
  <1>1. UNCHANGED <<phase, has, task, runner>> /\ BoundsTypeOK' /\ BulkTypeOK'
    <2>1. CASE Request(c) \/ HangUp(c) \/ Abort(c) \/ globalRateLimiter(c) \/ routeLimiter(c)
      BY <1>0, <2>1, TypesKept DEF Request, HangUp, Abort, globalRateLimiter, routeLimiter, process, bulk
    <2>2. CASE Handle(c)
      <3>1. UNCHANGED <<process, runner, bounds>>
            /\ (job' = job \/ \E j \in Job : job' = [job EXCEPT ![j] = "waiting"])
        BY <2>2 DEF Handle
      <3> QED BY <1>0, <3>1, TypesKept DEF BulkTypeOK, process
    <2> QED BY <2>1, <2>2 DEF Serve
  <1>2. /\ \/ \E p \in Proc : at' = [at EXCEPT ![c] = p]
           \/ at' = [at EXCEPT ![c] = None]
           \/ at' = at
        /\ pc' = pc \/ \E w \in Busy \cup {"closed", "open"} : pc' = [pc EXCEPT ![c] = w]
        /\ route' = route \/ \E r \in Route \cup {"none"} : route' = [route EXCEPT ![c] = r]
        /\ gone' \in {gone, gone \ {c}, gone \cup {c}}
    <2>1. CASE Request(c)
      BY <2>1 DEF Request, Busy
    <2>2. CASE HangUp(c)
      BY <2>2 DEF HangUp
    <2>3. CASE Abort(c)
      BY <2>3 DEF Abort
    <2>4. CASE Serve(c)
      BY <1>0, <2>4, ServeShape
    <2> QED BY <2>1, <2>2, <2>3, <2>4
  <1>3. HttpTypeOK'
    <2>1. at' \in [Conn -> Proc \cup {None}]
      BY <1>0, <1>2 DEF HttpTypeOK
    <2>2. pc' \in [Conn -> Busy \cup {"closed", "open"}]
      BY <1>0, <1>2 DEF HttpTypeOK
    <2>3. route' \in [Conn -> Route \cup {"none"}]
      BY <1>0, <1>2 DEF HttpTypeOK
    <2>4. gone' \subseteq Conn
      BY <1>0, <1>2 DEF HttpTypeOK
    <2> QED BY <2>1, <2>2, <2>3, <2>4 DEF HttpTypeOK
  <1>4. LimiterInv'
    <2>1. \A d \in Conn : d # c => pc'[d] = pc[d] /\ route'[d] = route[d]
      BY <1>0, <1>2 DEF HttpTypeOK
    <2>2. pc'[c] = "limiter" => limiterOf(route'[c]) \in Limiter
      <3>0. Answer(c) => pc'[c] \in {"closed", "open"}
        BY <1>0, AnswerShape DEF HttpTypeOK
      <3>1. CASE Request(c) \/ HangUp(c) \/ Abort(c)
        BY <1>0, <3>1 DEF Request, HangUp, Abort, HttpTypeOK, LimiterInv
      <3>2. CASE routeLimiter(c) \/ Handle(c)
        BY <1>0, <3>0, <3>2 DEF routeLimiter, Handle, GoOn, HttpTypeOK
      <3>3. CASE globalRateLimiter(c)
        <4>1. Answer(c) \/ \E r \in Route : GoOn(c, r, IF limiterOf(r) = "none" THEN "handler" ELSE "limiter")
          BY <3>3, AskedAssumption DEF globalRateLimiter
        <4>2. ASSUME NEW r \in Route, GoOn(c, r, IF limiterOf(r) = "none" THEN "handler" ELSE "limiter")
              PROVE  pc'[c] = "limiter" => limiterOf(route'[c]) \in Limiter
          <5>1. route'[c] = r /\ pc'[c] = IF limiterOf(r) = "none" THEN "handler" ELSE "limiter"
            BY <1>0, <4>2 DEF GoOn, HttpTypeOK
          <5>2. limiterOf(r) \in Limiter \cup {"none"}
            BY DEF limiterOf, Limiter, Route
          <5> QED BY <5>1, <5>2
        <4> QED BY <3>0, <4>1, <4>2
      <3> QED BY <3>1, <3>2, <3>3 DEF Serve
    <2> QED BY <1>0, <1>3, <2>1, <2>2 DEF LimiterInv, HttpTypeOK
  <1>5. ASSUME NEW q \in Proc PROVE ProcessInv(q)'
    <2>1. ASSUME NEW p \in Proc, "server" \in has[p], at' = [at EXCEPT ![c] = p], gone' = gone PROVE ProcessInv(q)'
      <3>1. CASE q # p
        <4>1. connected(q)' \subseteq connected(q)
          BY <1>0, <2>1, <3>1 DEF HttpTypeOK, connected
        <4> QED BY <1>0, <1>1, <4>1, ProcessFrame
      <3>2. CASE q = p
        <4>1. ProcessInv(q) /\ phase[q] = "serving" /\ \A n \in Signal : task[q][n] = "none"
          BY <1>0, <2>1, <3>2 DEF ProcessInv
        <4> QED BY <1>1, <4>1 DEF ProcessInv
      <3> QED BY <3>1, <3>2
    <2>2. CASE connected(q)' \subseteq connected(q)
      BY <1>0, <1>1, <2>2, ProcessFrame
    <2>3. CASE HangUp(c) \/ Abort(c) \/ Serve(c)
      BY <2>2, <2>3, ConnectedShrinks
    <2>4. CASE Request(c)
      <3>1. CASE at' = at
        BY <2>2, <2>4, <3>1 DEF Request, connected
      <3> QED BY <2>1, <2>4, <3>1 DEF Request
    <2> QED BY <2>3, <2>4
  <1> QED BY <1>1, <1>3, <1>4, <1>5, <1>0, TypesKept DEF PartsOK, ProcessesOK, ProcessTypeOK

(* Jobs end, are found stalled, and are taken by a process whose worker    *)
(* runs and is not being closed.                                           *)
LEMMA JobStep ==
  ASSUME ServerInv, NEW j \in Job, \/ FinishJob(j) \/ Recover(j) \/ \E p \in Proc : Take(j, p)
  PROVE  PartsOK /\ ProcessesOK
  <1>0. ProcessTypeOK /\ HttpTypeOK /\ BulkTypeOK /\ BoundsTypeOK /\ LimiterInv /\ \A q \in Proc : ProcessInv(q)
    BY TypeParts DEF ServerInv
  <1>1. UNCHANGED <<process, http, bounds>>
    BY DEF FinishJob, Recover, Take
  <1>2. /\ \E to \in {"done", "waiting", "active"} : job' = [job EXCEPT ![j] = to]
        /\ \/ runner' = [runner EXCEPT ![j] = None]
           \/ runner' = runner
           \/ \E p \in Proc : /\ runner' = [runner EXCEPT ![j] = p]
                              /\ "worker" \in has[p] /\ ~Closing(p)
    <2>1. CASE FinishJob(j)
      BY <2>1 DEF FinishJob
    <2>2. CASE Recover(j)
      BY <2>2 DEF Recover
    <2>3. CASE \E p \in Proc : Take(j, p)
      BY <2>3 DEF Take
    <2> QED BY <2>1, <2>2, <2>3
  <1>3. BulkTypeOK'
    <2>1. job' \in [Job -> {"none", "waiting", "active", "stalled", "done"}]
      BY <1>0, <1>2 DEF BulkTypeOK
    <2>2. runner' \in [Job -> Proc \cup {None}]
      BY <1>0, <1>2 DEF BulkTypeOK
    <2> QED BY <2>1, <2>2 DEF BulkTypeOK
  <1>4. /\ phase' = phase /\ has' = has /\ task' = task /\ at' = at /\ pc' = pc /\ route' = route
        /\ \A q \in Proc : connected(q)' = connected(q)
    BY <1>1 DEF process, http, connected
  <1>5. ASSUME NEW q \in Proc PROVE ProcessInv(q)'
    <2>1. ASSUME NEW p \in Proc, runner' = [runner EXCEPT ![j] = p], "worker" \in has[p], ~Closing(p)
          PROVE  ProcessInv(q)'
      <3>1. CASE q # p
        <4>1. \A k \in Job : runner'[k] = q => runner[k] = q
          BY <1>0, <2>1, <3>1 DEF BulkTypeOK
        <4> QED BY <1>0, <1>4, <4>1, ProcessFrame
      <3>2. CASE q = p
        <4>1. ProcessInv(q) /\ phase[q] = "serving"
              /\ \A n \in Signal : task[q][n] \notin {"database", "redis", "dead"}
          BY <1>0, <2>1, <3>2 DEF ProcessInv
        <4> QED BY <1>4, <4>1 DEF ProcessInv
      <3> QED BY <3>1, <3>2
    <2>2. CASE runner' = [runner EXCEPT ![j] = None] \/ runner' = runner
      <3>1. \A k \in Job : runner'[k] = q => runner[k] = q
        BY <1>0, <2>2, NoneAssumption DEF BulkTypeOK
      <3> QED BY <1>0, <1>4, <3>1, ProcessFrame
    <2> QED BY <1>2, <2>1, <2>2
  <1> QED BY <1>0, <1>1, <1>3, <1>4, <1>5, TypesKept, LimiterFrame DEF PartsOK, ProcessesOK

(* A shutdown task goes from one await to the next, or is over.            *)
LEMMA ShutdownLemma ==
  ASSUME ServerInv, NEW p \in Proc, NEW n \in Signal,
         shutdown(p, n) \/ ShutdownStep(p, n) \/ StepFails(p, n)
  PROVE  PartsOK /\ ProcessesOK
  <1>0. ProcessTypeOK /\ HttpTypeOK /\ BulkTypeOK /\ BoundsTypeOK /\ LimiterInv /\ \A q \in Proc : ProcessInv(q)
    BY TypeParts DEF ServerInv
  <1>1. CASE QuitAndExit(p, n)
    BY <1>0, <1>1, ExitStep, TypesKept DEF QuitAndExit, PartsOK
  <1>2. ASSUME shutdown(p, n) \/ stopBulkOrderWorker(p, n) \/ WorkerClosed(p, n) \/ DatabaseClosed(p, n) \/ StepFails(p, n)
        PROVE  PartsOK /\ ProcessesOK
    <2>1. PICK stage \in Stage, lost \in SUBSET Asset :
            /\ task' = [task EXCEPT ![p][n] = stage]
            /\ has' = [has EXCEPT ![p] = @ \ lost]
            /\ \/ /\ phase[p] = "serving" /\ task[p][n] = "none" /\ stage = "close" /\ lost = {"server"}
               \/ /\ task[p][n] = "close" /\ stage = "worker" /\ lost = {} /\ connected(p) = {}
               \/ /\ task[p][n] = "worker" /\ lost = {"worker"} /\ \A j \in Job : runner[j] # p
                  /\ stage \in {"database", "redis", "dead"}
               \/ /\ task[p][n] = "database" /\ stage = "redis" /\ lost = {"database"}
               \/ /\ task[p][n] \in {"database", "redis"} /\ stage = "dead" /\ lost = {}
      <3>1. CASE shutdown(p, n)
        BY <3>1 DEF shutdown, Step, Stage, Asset
      <3>2. CASE stopBulkOrderWorker(p, n)
        <4>1. has' = [has EXCEPT ![p] = @ \ {}]
          BY <1>0, <3>2 DEF stopBulkOrderWorker, ProcessTypeOK
        <4> QED BY <3>2, <4>1 DEF stopBulkOrderWorker, Step, Stage
      <3>3. CASE WorkerClosed(p, n)
        BY <3>3 DEF WorkerClosed, Step, Stage, Asset
      <3>4. CASE DatabaseClosed(p, n)
        BY <3>4 DEF DatabaseClosed, Step, Stage, Asset
      <3>5. CASE StepFails(p, n)
        <4>1. has' = [has EXCEPT ![p] = @ \ {}]
          BY <1>0, <3>5 DEF StepFails, ProcessTypeOK
        <4> QED BY <3>5, <4>1 DEF StepFails, Step, Stage
      <3> QED BY <1>2, <3>1, <3>2, <3>3, <3>4, <3>5
    <2>2. /\ phase' = phase /\ UNCHANGED bulk
          /\ at' \in [Conn -> Proc \cup {None}] /\ \A c \in Conn : at'[c] \in {at[c], None}
          /\ pc' \in [Conn -> Busy \cup {"closed", "open"}] /\ \A c \in Conn : pc'[c] \in {pc[c], "closed"}
          /\ route' = route /\ gone' = gone
      <3>1. CASE shutdown(p, n)
        BY <1>0, <3>1 DEF shutdown, HttpTypeOK
      <3>2. CASE stopBulkOrderWorker(p, n) \/ WorkerClosed(p, n) \/ DatabaseClosed(p, n) \/ StepFails(p, n)
        BY <1>0, <3>2 DEF stopBulkOrderWorker, WorkerClosed, DatabaseClosed, StepFails, HttpTypeOK, http
      <3> QED BY <1>2, <3>1, <3>2
    <2>3. BoundsTypeOK'
      <3>1. CASE StepFails(p, n)
        BY <1>0, <3>1, BoundAssumption DEF StepFails, BoundsTypeOK
      <3>2. CASE shutdown(p, n) \/ stopBulkOrderWorker(p, n) \/ WorkerClosed(p, n) \/ DatabaseClosed(p, n)
        BY <1>0, <3>2, TypesKept DEF shutdown, stopBulkOrderWorker, WorkerClosed, DatabaseClosed
      <3> QED BY <1>2, <3>1, <3>2
    <2>4. ProcessTypeOK'
      BY <1>0, <2>1, <2>2 DEF ProcessTypeOK
    <2>5. HttpTypeOK' /\ BulkTypeOK'
      BY <1>0, <2>2, TypesKept DEF HttpTypeOK
    <2>6. LimiterInv'
      BY <1>0, <2>2 DEF LimiterInv
    <2>7. \A q \in Proc : /\ connected(q)' \subseteq connected(q)
                          /\ \A j \in Job : runner'[j] = q => runner[j] = q
      BY <2>2, NoneAssumption DEF bulk, connected
    <2>8. ASSUME NEW q \in Proc, q # p PROVE ProcessInv(q)'
      <3>1. phase'[q] = phase[q] /\ has'[q] = has[q] /\ task'[q] = task[q]
        BY <1>0, <2>1, <2>2, <2>8 DEF ProcessTypeOK
      <3> QED BY <1>0, <2>7, <3>1, ProcessFrame
    <2>9. ProcessInv(p)'
      <3>1. phase'[p] = phase[p] /\ has'[p] = has[p] \ lost /\ task'[p][n] = stage
            /\ \A m \in Signal : m # n => task'[p][m] = task[p][m]
        BY <1>0, <2>1, <2>2 DEF ProcessTypeOK
      <3>2. ProcessInv(p) /\ (Idle(p) => Idle(p)') /\ (connected(p) = {} => connected(p)' = {})
        BY <1>0, <2>7 DEF Idle
      <3>3. phase[p] = "serving"
        BY <2>1, <3>2 DEF ProcessInv
      <3>4. "adapters" \in has'[p]
        BY <2>1, <3>1, <3>2, <3>3 DEF ProcessInv
      <3>5. (\A m \in Signal : task'[p][m] \notin {"database", "redis", "dead"}) => "database" \in has'[p]
        <4> SUFFICES ASSUME \A m \in Signal : task'[p][m] \notin {"database", "redis", "dead"}
                     PROVE  "database" \in has'[p]
          OBVIOUS
        <4>1. \A m \in Signal : task[p][m] \notin {"database", "redis", "dead"}
          BY <2>1, <3>1
        <4>2. "database" \in has[p] /\ lost # {"database"}
          BY <2>1, <3>1, <3>2, <3>3, <4>1 DEF ProcessInv
        <4> QED BY <2>1, <3>1, <4>2
      <3>6. ASSUME NEW m \in Signal
            PROVE  /\ task'[p][m] # "none" => "server" \notin has'[p]
                   /\ task'[p][m] \in {"worker", "database", "redis", "dead"} => connected(p)' = {}
                   /\ task'[p][m] \in {"database", "redis", "dead"} => "worker" \notin has'[p] /\ Idle(p)'
        <4>1. CASE m # n
          BY <3>1, <3>2, <4>1 DEF ProcessInv
        <4>2. CASE m = n
          <5>1. task[p][n] \in {"close", "worker", "database", "redis"} => "server" \notin has[p]
            BY <3>2 DEF ProcessInv
          <5>2. "server" \notin has'[p]
            BY <2>1, <3>1, <5>1
          <5>3. stage # "close" => connected(p) = {}
            BY <2>1, <3>2 DEF ProcessInv
          <5>4. stage \in {"database", "redis", "dead"} => "worker" \notin has'[p] /\ Idle(p)
            <6>1. task[p][n] \in {"database", "redis"} => "worker" \notin has[p] /\ Idle(p)
              BY <3>2 DEF ProcessInv
            <6>2. task[p][n] = "worker" /\ (\A j \in Job : runner[j] # p) => Idle(p)
              BY <3>2 DEF ProcessInv, Idle
            <6> QED BY <2>1, <3>1, <6>1, <6>2
          <5> QED BY <2>1, <3>1, <3>2, <4>2, <5>2, <5>3, <5>4
        <4> QED BY <4>1, <4>2
      <3> QED BY <3>1, <3>3, <3>4, <3>5, <3>6 DEF ProcessInv
    <2> QED BY <2>3, <2>4, <2>5, <2>6, <2>8, <2>9 DEF PartsOK, ProcessesOK
  <1> QED BY <1>1, <1>2 DEF ShutdownStep

(* Redis, time and stuttering leave the processes alone.                   *)
LEMMA QuietStep ==
  ASSUME ServerInv, RedisDown \/ RedisBack \/ Pass \/ UNCHANGED vars
  PROVE  PartsOK /\ ProcessesOK
  <1>0. ProcessTypeOK /\ HttpTypeOK /\ BulkTypeOK /\ BoundsTypeOK /\ LimiterInv /\ \A q \in Proc : ProcessInv(q)
    BY TypeParts DEF ServerInv
  <1>1. UNCHANGED <<process, http, bulk>>
    BY DEF RedisDown, RedisBack, Pass, vars
  <1>2. BoundsTypeOK'
    <2>1. CASE RedisDown
      <3>1. redisUp' \in BOOLEAN /\ UNCHANGED <<starts, faults>>
        BY <2>1 DEF RedisDown
      <3>2. outages < MaxOutages /\ outages' = outages + 1
        BY <2>1 DEF RedisDown
      <3> QED BY <1>0, <3>1, <3>2, BoundAssumption DEF BoundsTypeOK
    <2>2. CASE RedisBack
      BY <1>0, <2>2 DEF RedisBack, BoundsTypeOK
    <2>3. CASE Pass \/ UNCHANGED vars
      BY <1>0, <2>3, TypesKept DEF Pass, vars
    <2> QED BY <2>1, <2>2, <2>3
  <1>3. /\ phase' = phase /\ has' = has /\ task' = task /\ at' = at /\ runner' = runner /\ pc' = pc /\ route' = route
        /\ \A q \in Proc : connected(q)' = connected(q)
    BY <1>1 DEF process, http, bulk, connected
  <1>4. \A q \in Proc : ProcessInv(q)'
    BY <1>0, <1>3, ProcessFrame
  <1> QED BY <1>0, <1>1, <1>2, <1>3, <1>4, TypesKept, LimiterFrame DEF PartsOK, ProcessesOK

(* Every step keeps the invariant.                                         *)
LEMMA ServerNext ==
  ASSUME ServerInv, [Next]_vars
  PROVE  ServerInv'
  <1>1. PartsOK /\ ProcessesOK
    BY BootstrapStep, DieStep, RequestStep, JobStep, ShutdownLemma, QuietStep DEF Next
  <1>2. LimitsInv'
    <2>1. \/ \E c \in Conn, l \in Limiter : increment(ipOf[c], l)
          \/ Tick
          \/ UNCHANGED limits
      BY LimitsSteps DEF ServerInv
    <2>2. ASSUME NEW c \in Conn, NEW l \in Limiter, increment(ipOf[c], l)
          PROVE  LimitsInv'
      <3>1. ipOf[c] \in Ip /\ LimitsInv
        BY ConnAssumption DEF ServerInv
      <3> QED BY <2>2, <3>1, IncrementStep
    <2>3. CASE Tick
      BY <2>3, TickStep DEF ServerInv
    <2>4. CASE UNCHANGED limits
      BY <2>4 DEF ServerInv, LimitsInv, LimitsTypeOK, limits
    <2> QED BY <2>1, <2>2, <2>3, <2>4
  <1>3. TypeOK'
    BY <1>1, <1>2, TypeParts DEF PartsOK, LimitsInv
  <1> QED BY <1>1, <1>2, <1>3 DEF ProcessesOK, ServerInv

-----------------------------------------------------------------------------
(* Theorems                                                                *)

(* The invariant of processes and limiters together.                       *)
THEOREM ServerCorrect == Spec => []ServerInv
  <1>1. ServerInv /\ [Next]_vars => ServerInv'
    BY ServerNext
  <1> QED BY ServerInit, <1>1, PTL DEF Spec

(* Every variable keeps its type.                                          *)
THEOREM TypeCorrect == Spec => []TypeOK
  <1>1. ServerInv => TypeOK
    BY DEF ServerInv
  <1> QED BY ServerCorrect, <1>1, PTL

(* No limiter admits more than its max in the life of a key, for any       *)
(* number of processes, connections and restarts.                          *)
THEOREM Ceiling == Spec => []CeilingPerKey
  <1>1. ServerInv => CeilingPerKey
    BY DEF ServerInv, LimitsInv, CeilingPerKey
  <1> QED BY ServerCorrect, <1>1, PTL

(* What clients are connected to or what runs a job has its database and   *)
(* its adapters, whatever clients give up and for any number of signals    *)
(* whose shutdowns overlap.                                                *)
THEOREM ResourcesKept == Spec => []ResourcesOutliveUse
  <1>1. ASSUME ServerInv PROVE ResourcesOutliveUse
    <2> SUFFICES ASSUME NEW p \in Proc, InUse(p)
                 PROVE  /\ {"database", "adapters"} \subseteq has[p]
                        /\ \A n \in Signal : task[p][n] \notin {"database", "redis"}
      BY DEF ResourcesOutliveUse
    <2>1. ProcessInv(p) /\ ~Idle(p)
      BY <1>1 DEF ServerInv, InUse, Idle
    <2>2. phase[p] = "serving" /\ \A n \in Signal : task[p][n] \notin {"database", "redis", "dead"}
      BY <2>1 DEF ProcessInv
    <2> QED BY <2>1, <2>2 DEF ProcessInv
  <1> QED BY ServerCorrect, <1>1, PTL


-----------------------------------------------------------------------------
(* Progress.  That a shutdown and a request end is a matter of fairness    *)
(* and left to TLC; what is proved is the rest of the argument: there is   *)
(* always a task that goes on, every step of it goes forward, and nobody   *)
(* gives a process that is stopping anything new to wait for.              *)

Stopping(p) == phase[p] = "serving" /\ "server" \notin has[p]

Underway(p) == \E n \in Signal : task[p][n] \in {"close", "worker", "database", "redis"}

\* how far a shutdown is
Rank(stage) == CASE stage = "none" -> 0 [] stage = "close" -> 1 [] stage = "worker" -> 2
                 [] stage = "database" -> 3 [] stage = "redis" -> 4 [] OTHER -> 5

\* a step of a shutdown that does not end the process
ShutdownPart(p, n) == \/ shutdown(p, n) \/ stopBulkOrderWorker(p, n) \/ WorkerClosed(p, n)
                      \/ DatabaseClosed(p, n) \/ StepFails(p, n)

\* what a step leaves of a process whose shutdowns it does not touch
Untouched(p) == /\ task'[p] = task[p] /\ faults' >= faults
                /\ phase[p] = "serving" => phase'[p] = "serving" /\ has'[p] = has[p]
                /\ Stopping(p)' => phase[p] = "serving"

(* A step of one process leaves the shutdowns of another alone.            *)
LEMMA OtherProcess ==
  ASSUME ServerInv, NEW p \in Proc, NEW q \in Proc, q # p,
         phase' = phase \/ \E w : phase' = [phase EXCEPT ![q] = w],
         has' = has \/ \E w : has' = [has EXCEPT ![q] = w],
         task' = task \/ \E w : task' = [task EXCEPT ![q] = w],
         faults' \in {faults, faults + 1}
  PROVE  Untouched(p)
  <1>1. /\ phase \in [Proc -> Boot \cup {"down", "serving"}] /\ has \in [Proc -> SUBSET Asset]
        /\ task \in [Proc -> [Signal -> Stage]] /\ faults \in Nat
    BY BoundAssumption DEF ServerInv, TypeOK
  <1>2. phase'[p] = phase[p] /\ has'[p] = has[p] /\ task'[p] = task[p]
    BY <1>1
  <1> QED BY <1>1, <1>2 DEF Untouched, Stopping

(* What a step does to a process: it ends it, it is one of its shutdowns,  *)
(* or it leaves these alone.                                               *)
LEMMA ProcessSteps ==
  ASSUME ServerInv, [Next]_vars, NEW p \in Proc
  PROVE  \/ phase'[p] = "down" /\ (Exit(p) \/ Untouched(p))
         \/ \E n \in Signal : ShutdownPart(p, n)
         \/ Untouched(p)
  <1>0. /\ phase \in [Proc -> Boot \cup {"down", "serving"}] /\ has \in [Proc -> SUBSET Asset]
        /\ task \in [Proc -> [Signal -> Stage]] /\ faults \in Nat
    BY BoundAssumption DEF ServerInv, TypeOK
  <1>1. ASSUME NEW q \in Proc, Start(q) \/ bootstrap(q) PROVE Untouched(p)
    <2>1. task' = task /\ faults' = faults /\ phase[q] # "serving"
      BY <1>1 DEF Start, bootstrap, initRedis, initDatabase, registerCourierAdapters, Listen, Proceed, bounds
    <2>2. \/ phase' = [phase EXCEPT ![q] = "serving"] /\ has' = [has EXCEPT ![q] = @ \cup {"worker", "server"}]
          \/ phase' = [phase EXCEPT ![q] = "redis"] /\ has' = has
          \/ phase' = [phase EXCEPT ![q] = "database"] /\ has' = [has EXCEPT ![q] = @ \cup {}]
          \/ phase' = [phase EXCEPT ![q] = "adapters"] /\ has' = [has EXCEPT ![q] = @ \cup {"database"}]
          \/ phase' = [phase EXCEPT ![q] = "routes"] /\ has' = [has EXCEPT ![q] = @ \cup {"adapters"}]
      BY <1>1 DEF Start, bootstrap, initRedis, initDatabase, registerCourierAdapters, Listen, Proceed
    <2>3. CASE q # p
      <3>1. (\E w : phase' = [phase EXCEPT ![q] = w]) /\ (has' = has \/ \E w : has' = [has EXCEPT ![q] = w])
        BY <2>2
      <3> QED BY <2>1, <2>3, <3>1, OtherProcess
    <2>4. CASE q = p
      <3>1. phase'[p] = "serving" => "server" \in has'[p]
        BY <1>0, <2>2, <2>4
      <3> QED BY <1>0, <2>1, <2>4, <3>1 DEF Untouched, Stopping
    <2> QED BY <2>3, <2>4
  <1>2. ASSUME NEW q \in Proc, Exit(q), faults' \in {faults, faults + 1}
        PROVE  Untouched(p) \/ (phase'[p] = "down" /\ Exit(p))
    <2>1. /\ phase' = [phase EXCEPT ![q] = "down"] /\ has' = [has EXCEPT ![q] = {}]
          /\ task' = [task EXCEPT ![q] = NoTask]
      BY <1>2 DEF Exit
    <2>2. CASE q # p
      BY <1>2, <2>1, <2>2, OtherProcess
    <2>3. CASE q = p
      BY <1>0, <1>2, <2>1, <2>3
    <2> QED BY <2>2, <2>3
  <1>3. ASSUME NEW q \in Proc, NEW n \in Signal, ShutdownPart(q, n)
        PROVE  Untouched(p) \/ \E m \in Signal : ShutdownPart(p, m)
    <2>1. CASE q # p
      <3>1. /\ phase' = phase /\ faults' \in {faults, faults + 1}
            /\ has' = has \/ \E w : has' = [has EXCEPT ![q] = w]
            /\ \E w : task' = [task EXCEPT ![q] = w]
        BY <1>3 DEF ShutdownPart, shutdown, stopBulkOrderWorker, WorkerClosed, DatabaseClosed, StepFails, Step, bounds
      <3> QED BY <2>1, <3>1, OtherProcess
    <2> QED BY <1>3, <2>1
  <1>4. ASSUME \/ \E c \in Conn : Request(c) \/ Serve(c) \/ HangUp(c) \/ Abort(c)
               \/ \E j \in Job : FinishJob(j) \/ Recover(j) \/ \E q \in Proc : Take(j, q)
               \/ RedisDown \/ RedisBack \/ Pass \/ UNCHANGED vars
        PROVE  Untouched(p)
    <2>1. UNCHANGED <<phase, has, task, faults>>
      BY <1>4 DEF Request, Serve, globalRateLimiter, routeLimiter, Handle, HangUp, Abort, FinishJob, Recover,
           Take, RedisDown, RedisBack, Pass, vars, process, bounds
    <2> QED BY <1>0, <2>1 DEF Untouched, Stopping
  <1>5. ASSUME NEW q \in Proc, Die(q) PROVE Exit(q) /\ faults' \in {faults, faults + 1}
    BY <1>5 DEF Die
  <1>6. ASSUME NEW q \in Proc, NEW n \in Signal, QuitAndExit(q, n) PROVE Exit(q) /\ faults' \in {faults, faults + 1}
    BY <1>6 DEF QuitAndExit, bounds
  <1> QED BY <1>1, <1>2, <1>3, <1>4, <1>5, <1>6 DEF Next, ShutdownStep, ShutdownPart

(* A step of a shutdown takes its task forward, and no other task.         *)
LEMMA ShutdownForward ==
  ASSUME ServerInv, NEW p \in Proc, NEW n \in Signal, ShutdownPart(p, n)
  PROVE  /\ phase'[p] = phase[p] /\ Stopping(p)' /\ faults' >= faults
         /\ Rank(task'[p][n]) > Rank(task[p][n])
         /\ task'[p][n] = "dead" => faults' > 0 \/ \E m \in Signal \ {n} : task[p][m] = "database"
         /\ task'[p][n] # "none"
         /\ \A m \in Signal \ {n} : task'[p][m] = task[p][m]
  <1>0. /\ phase \in [Proc -> Boot \cup {"down", "serving"}] /\ has \in [Proc -> SUBSET Asset]
        /\ task \in [Proc -> [Signal -> Stage]] /\ faults \in Nat /\ ProcessInv(p)
    BY BoundAssumption DEF ServerInv, TypeOK
  <1>1. /\ phase' = phase /\ faults' \in {faults, faults + 1}
        /\ has'[p] \subseteq has[p]
    BY <1>0 DEF ShutdownPart, shutdown, stopBulkOrderWorker, WorkerClosed, DatabaseClosed, StepFails, bounds
  <1>2. task[p][n] \in Stage /\ task[p] \in [Signal -> Stage]
    BY <1>0
  <1>3. PICK stage \in Stage :
          /\ task' = [task EXCEPT ![p][n] = stage]
          /\ \/ task[p][n] = "none" /\ stage = "close" /\ phase[p] = "serving" /\ "server" \notin has'[p]
             \/ task[p][n] = "close" /\ stage = "worker"
             \/ /\ task[p][n] = "worker" /\ stage \in {"database", "redis", "dead"}
                /\ stage = "dead" => \E m \in Signal : task[p][m] = "database"
             \/ task[p][n] = "database" /\ stage = "redis"
             \/ task[p][n] \in {"database", "redis"} /\ stage = "dead" /\ faults' = faults + 1
    <2>1. CASE shutdown(p, n)
      BY <1>0, <2>1 DEF shutdown, Step, Stage
    <2>2. CASE stopBulkOrderWorker(p, n)
      BY <2>2 DEF stopBulkOrderWorker, Step, Stage
    <2>3. CASE WorkerClosed(p, n)
      BY <2>3 DEF WorkerClosed, Step, Stage
    <2>4. CASE DatabaseClosed(p, n)
      BY <2>4 DEF DatabaseClosed, Step, Stage
    <2>5. CASE StepFails(p, n)
      BY <2>5 DEF StepFails, Step, Stage
    <2> QED BY <2>1, <2>2, <2>3, <2>4, <2>5 DEF ShutdownPart
  <1>4. task'[p][n] = stage /\ \A m \in Signal \ {n} : task'[p][m] = task[p][m]
    BY <1>0, <1>2, <1>3
  <1>5. phase[p] = "serving" /\ "server" \notin has'[p]
    BY <1>0, <1>1, <1>3 DEF ProcessInv
  <1>6. Rank(stage) > Rank(task[p][n])
    BY <1>3 DEF Rank
  <1>7. stage = "dead" => faults' > 0 \/ \E m \in Signal \ {n} : task[p][m] = "database"
    BY <1>0, <1>3
  <1> QED BY <1>0, <1>1, <1>3, <1>4, <1>5, <1>6, <1>7 DEF Stopping

Attended(p) == Stopping(p) => Underway(p) \/ faults > 0

(* Every step leaves a process that is stopping a task that goes on,       *)
(* unless one failed.                                                      *)
LEMMA AttendedStep ==
  ASSUME ServerInv, [Next]_vars, NEW p \in Proc, Attended(p)
  PROVE  Attended(p)'
  <1>0. faults \in Nat /\ faults' \in Nat
    BY BoundAssumption, ServerNext DEF ServerInv, TypeOK
  <1>1. CASE phase'[p] = "down"
    BY <1>1 DEF Attended, Stopping
  <1>2. CASE Untouched(p)
    <2>1. Underway(p)' <=> Underway(p)
      BY <1>2 DEF Untouched, Underway
    <2>2. faults > 0 => faults' > 0
      BY <1>0, <1>2 DEF Untouched
    <2>3. Stopping(p)' => Stopping(p)
      BY <1>2 DEF Untouched, Stopping
    <2> QED BY <2>1, <2>2, <2>3 DEF Attended
  <1>3. ASSUME NEW n \in Signal, ShutdownPart(p, n) PROVE Attended(p)'
    <2>1. task'[p][n] \in Stage
      BY <1>3, ServerNext DEF ServerInv, TypeOK
    <2>2. CASE task'[p][n] # "dead"
      <3>1. task'[p][n] \in {"close", "worker", "database", "redis"}
        BY <1>3, <2>1, <2>2, ShutdownForward DEF Stage
      <3> QED BY <3>1 DEF Attended, Underway
    <2>3. CASE task'[p][n] = "dead"
      <3>1. faults' > 0 \/ \E m \in Signal \ {n} : task'[p][m] = "database"
        BY <1>3, <2>3, ShutdownForward
      <3> QED BY <3>1 DEF Attended, Underway
    <2> QED BY <2>2, <2>3
  <1> QED BY <1>1, <1>2, <1>3, ProcessSteps

(* A process that has stopped listening is never left without a task that  *)
(* takes its shutdown on, unless a call of a shutdown failed for every     *)
(* signal it got: a second signal ends no shutdown but its own             *)
(* (server.ts:42-56).                                                      *)
THEOREM NeverAbandoned ==
  Spec => [](\A p \in Proc : phase[p] = "serving" /\ "server" \notin has[p] =>
               Underway(p) \/ (faults > 0 /\ \A n \in Signal : task[p][n] \in {"none", "dead"}))
  <1>1. Init => \A p \in Proc : Attended(p)
    BY DEF Init, Attended, Stopping
  <1>2. ServerInv /\ [Next]_vars /\ (\A p \in Proc : Attended(p)) => (\A p \in Proc : Attended(p))'
    BY AttendedStep
  <1>3. ServerInv /\ (\A p \in Proc : Attended(p)) =>
          \A p \in Proc : phase[p] = "serving" /\ "server" \notin has[p] =>
            Underway(p) \/ (faults > 0 /\ \A n \in Signal : task[p][n] \in {"none", "dead"})
    <2> SUFFICES ASSUME ServerInv, NEW p \in Proc, Attended(p), Stopping(p), ~Underway(p)
                 PROVE  faults > 0 /\ \A n \in Signal : task[p][n] \in {"none", "dead"}
      BY DEF Stopping
    <2>1. \A n \in Signal : task[p][n] \in Stage
      BY DEF ServerInv, TypeOK
    <2> QED BY <2>1 DEF Attended, Underway, Stage
  <1> QED BY <1>1, <1>2, <1>3, ServerCorrect, PTL DEF Spec


(* While a process is stopping, nobody connects to it; once it waits for   *)
(* its worker, no job is taken by it.                                      *)
LEMMA NothingNew ==
  ASSUME ServerInv, [Next]_vars, NEW p \in Proc
  PROVE  /\ Stopping(p) => connected(p)' \subseteq connected(p)
         /\ Closing(p) => \A j \in Job : runner'[j] = p => runner[j] = p
  <1>0. /\ phase \in [Proc -> Boot \cup {"down", "serving"}] /\ has \in [Proc -> SUBSET Asset]
        /\ at \in [Conn -> Proc \cup {None}] /\ runner \in [Job -> Proc \cup {None}]
    BY DEF ServerInv, TypeOK
  <1>1. ASSUME NEW c \in Conn, Request(c), "server" \notin has[p] PROVE connected(p)' \subseteq connected(p)
    <2>1. (\E q \in Proc : "server" \in has[q] /\ at' = [at EXCEPT ![c] = q]) \/ at' = at
      BY <1>1 DEF Request
    <2>2. gone' = gone
      BY <1>1 DEF Request
    <2> QED BY <1>0, <1>1, <2>1, <2>2 DEF connected
  <1>2. ASSUME NEW q \in Proc, Exit(q)
        PROVE  connected(p)' \subseteq connected(p) /\ \A j \in Job : runner'[j] = p => runner[j] = p
    BY <1>2, NoneAssumption DEF Exit, connected
  <1>3. ASSUME \/ \E q \in Proc : \/ Start(q) \/ bootstrap(q)
                                  \/ \E n \in Signal : ShutdownPart(q, n)
               \/ \E c \in Conn : Serve(c) \/ HangUp(c) \/ Abort(c)
               \/ \E j \in Job : FinishJob(j) \/ Recover(j) \/ \E q \in Proc : Take(j, q)
               \/ RedisDown \/ RedisBack \/ Pass \/ UNCHANGED vars
        PROVE  connected(p)' \subseteq connected(p)
    <2>1. ASSUME NEW q \in Proc, NEW n \in Signal, shutdown(q, n) PROVE connected(p)' \subseteq connected(p)
      BY <2>1, NoneAssumption DEF shutdown, connected
    <2>2. ASSUME NEW c \in Conn, Serve(c) \/ HangUp(c) \/ Abort(c) PROVE connected(p)' \subseteq connected(p)
      BY <2>2, ConnectedShrinks
    <2>3. ASSUME \/ \E q \in Proc : \/ Start(q) \/ bootstrap(q)
                                    \/ \E n \in Signal : \/ stopBulkOrderWorker(q, n) \/ WorkerClosed(q, n)
                                                         \/ DatabaseClosed(q, n) \/ StepFails(q, n)
                 \/ \E j \in Job : FinishJob(j) \/ Recover(j) \/ \E q \in Proc : Take(j, q)
                 \/ RedisDown \/ RedisBack \/ Pass \/ UNCHANGED vars
          PROVE  UNCHANGED <<at, gone>>
      BY <2>3 DEF Start, bootstrap, initRedis, initDatabase, registerCourierAdapters, Listen, Proceed,
           stopBulkOrderWorker, WorkerClosed, DatabaseClosed, StepFails, FinishJob, Recover, Take, RedisDown,
           RedisBack, Pass, vars, http
    <2>4. UNCHANGED <<at, gone>> => connected(p)' \subseteq connected(p)
      BY DEF connected
    <2> QED BY <1>3, <2>1, <2>2, <2>3, <2>4 DEF ShutdownPart
  <1>4. ASSUME NEW j \in Job, NEW q \in Proc, Take(j, q), Closing(p), NEW i \in Job, runner'[i] = p PROVE runner[i] = p
    <2>1. q # p /\ runner' = [runner EXCEPT ![j] = q]
      BY <1>4 DEF Take
    <2> QED BY <1>0, <1>4, <2>1
  <1>5. ASSUME \/ \E q \in Proc : \/ Start(q) \/ bootstrap(q)
                                  \/ \E n \in Signal : ShutdownPart(q, n)
               \/ \E c \in Conn : Request(c) \/ Serve(c) \/ HangUp(c) \/ Abort(c)
               \/ \E j \in Job : FinishJob(j) \/ Recover(j)
               \/ RedisDown \/ RedisBack \/ Pass \/ UNCHANGED vars
        PROVE  \A j \in Job : runner'[j] = p => runner[j] = p
    <2>1. ASSUME NEW j \in Job, FinishJob(j) PROVE runner' = [runner EXCEPT ![j] = None]
      BY <2>1 DEF FinishJob
    <2>2. ASSUME \/ \E q \in Proc : \/ Start(q) \/ bootstrap(q)
                                    \/ \E n \in Signal : ShutdownPart(q, n)
                 \/ \E c \in Conn : Request(c) \/ Serve(c) \/ HangUp(c) \/ Abort(c)
                 \/ \E j \in Job : Recover(j)
                 \/ RedisDown \/ RedisBack \/ Pass \/ UNCHANGED vars
          PROVE  runner' = runner
      BY <2>2 DEF Start, bootstrap, initRedis, initDatabase, registerCourierAdapters, Listen, Proceed, ShutdownPart,
           shutdown, stopBulkOrderWorker, WorkerClosed, DatabaseClosed, StepFails, Request, HangUp, Abort, Serve,
           globalRateLimiter, routeLimiter, Handle, Recover, RedisDown, RedisBack, Pass, vars, bulk
    <2> QED BY <1>0, <1>5, <2>1, <2>2, NoneAssumption
  <1>6. \A q \in Proc : Die(q) => Exit(q)
    BY DEF Die
  <1>7. \A q \in Proc, n \in Signal : QuitAndExit(q, n) => Exit(q)
    BY DEF QuitAndExit
  <1>8. Stopping(p) => connected(p)' \subseteq connected(p)
    BY <1>1, <1>2, <1>3, <1>6, <1>7 DEF Next, ShutdownStep, ShutdownPart, Stopping
  <1>9. Closing(p) => \A j \in Job : runner'[j] = p => runner[j] = p
    BY <1>2, <1>4, <1>5, <1>6, <1>7 DEF Next, ShutdownStep, ShutdownPart
  <1> QED BY <1>8, <1>9

(* Each step of a shutdown takes its task forward or ends the process, no  *)
(* step takes a task back, a process that is stopping goes on stopping     *)
(* until it is down, and nobody gives it anything new to wait for.  With   *)
(* fairness this is why shutdowns end (server.ts:42-56).                   *)
THEOREM ShutdownsAdvance ==
  Spec => [][\A p \in Proc :
               /\ \A n \in Signal :
                    /\ shutdown(p, n) \/ ShutdownStep(p, n) \/ StepFails(p, n) =>
                         phase'[p] = "down" \/ Rank(task'[p][n]) > Rank(task[p][n])
                    /\ phase'[p] = "down" \/ Rank(task'[p][n]) >= Rank(task[p][n])
               /\ Stopping(p) => /\ phase'[p] = "down" \/ Stopping(p)'
                                 /\ connected(p)' \subseteq connected(p)
               /\ Closing(p) => \A j \in Job : runner'[j] = p => runner[j] = p]_vars
  <1> DEFINE Forward(p, n) == phase'[p] = "down" \/ Rank(task'[p][n]) > Rank(task[p][n])
             NotBack(p, n) == phase'[p] = "down" \/ Rank(task'[p][n]) >= Rank(task[p][n])
  <1>0. \A stage : Rank(stage) \in Nat
    BY DEF Rank
  <1>1. ASSUME ServerInv, [Next]_vars, NEW p \in Proc, NEW n \in Signal,
               shutdown(p, n) \/ ShutdownStep(p, n) \/ StepFails(p, n)
        PROVE  Forward(p, n)
    <2>1. CASE QuitAndExit(p, n)
      <3>1. phase \in [Proc -> Boot \cup {"down", "serving"}]
        BY <1>1 DEF ServerInv, TypeOK
      <3> QED BY <2>1, <3>1 DEF QuitAndExit, Exit
    <2>2. CASE ShutdownPart(p, n)
      BY <1>1, <2>2, ShutdownForward
    <2> QED BY <1>1, <2>1, <2>2 DEF ShutdownStep, ShutdownPart
  <1>2. ASSUME ServerInv, [Next]_vars, NEW p \in Proc, NEW n \in Signal PROVE NotBack(p, n)
    <2>1. CASE Untouched(p)
      BY <1>0, <2>1 DEF Untouched
    <2>2. ASSUME NEW m \in Signal, ShutdownPart(p, m) PROVE NotBack(p, n)
      <3>1. CASE m = n
        BY <1>0, <1>2, <2>2, <3>1, ShutdownForward
      <3>2. CASE m # n
        <4>1. task'[p][n] = task[p][n]
          BY <1>2, <2>2, <3>2, ShutdownForward
        <4> QED BY <1>0, <4>1
      <3> QED BY <3>1, <3>2
    <2> QED BY <1>2, <2>1, <2>2, ProcessSteps
  <1>3. ASSUME ServerInv, [Next]_vars, NEW p \in Proc, Stopping(p) PROVE phase'[p] = "down" \/ Stopping(p)'
    <2>1. Untouched(p) => Stopping(p)'
      BY <1>3 DEF Untouched, Stopping
    <2>2. \A m \in Signal : ShutdownPart(p, m) => Stopping(p)'
      BY <1>3, ShutdownForward
    <2> QED BY <1>3, <2>1, <2>2, ProcessSteps
  <1>4. ServerInv /\ [Next]_vars =>
          [\A p \in Proc :
               /\ \A n \in Signal :
                    /\ shutdown(p, n) \/ ShutdownStep(p, n) \/ StepFails(p, n) =>
                         phase'[p] = "down" \/ Rank(task'[p][n]) > Rank(task[p][n])
                    /\ phase'[p] = "down" \/ Rank(task'[p][n]) >= Rank(task[p][n])
               /\ Stopping(p) => /\ phase'[p] = "down" \/ Stopping(p)'
                                 /\ connected(p)' \subseteq connected(p)
               /\ Closing(p) => \A j \in Job : runner'[j] = p => runner[j] = p]_vars
    BY <1>1, <1>2, <1>3, NothingNew
  <1> QED BY <1>4, ServerCorrect, PTL DEF Spec

-----------------------------------------------------------------------------
(* Requests                                                                *)

\* the awaits a request has before it
Awaits(where) == CASE where = "global" -> 3 [] where = "limiter" -> 2 [] where = "handler" -> 1 [] OTHER -> 0

(* Each await of a request that ends takes it nearer to its answer, and no *)
(* other step touches a request in flight unless its process is gone: with *)
(* fairness, and Redis coming back, every request ends                     *)
(* (rate-limiter.middleware.ts:27).                                        *)
THEOREM RequestsAdvance ==
  Spec => [][\A c \in Conn :
               /\ Serve(c) => Awaits(pc'[c]) < Awaits(pc[c])
               /\ pc[c] \in Busy => \/ Serve(c) \/ pc'[c] = "closed"
                                    \/ pc'[c] = pc[c] /\ at'[c] = at[c] /\ route'[c] = route[c]]_vars
  <1>1. ASSUME ServerInv, NEW c \in Conn, Serve(c) PROVE Awaits(pc'[c]) < Awaits(pc[c])
    <2>1. pc \in [Conn -> Busy \cup {"closed", "open"}]
      BY <1>1 DEF ServerInv, TypeOK
    <2>2. \/ pc[c] = "global" /\ pc'[c] \in {"open", "closed", "limiter", "handler"}
          \/ pc[c] = "limiter" /\ pc'[c] \in {"open", "closed", "handler"}
          \/ pc[c] = "handler" /\ pc'[c] \in {"open", "closed"}
      BY <1>1, <2>1 DEF Serve, globalRateLimiter, routeLimiter, Handle, Answer, GoOn
    <2> QED BY <2>2 DEF Awaits
  <1>2. ASSUME ServerInv, [Next]_vars, NEW c \in Conn, pc[c] \in Busy, ~Serve(c)
        PROVE  \/ pc'[c] = "closed"
               \/ pc'[c] = pc[c] /\ at'[c] = at[c] /\ route'[c] = route[c]
    <2>0. /\ pc \in [Conn -> Busy \cup {"closed", "open"}] /\ at \in [Conn -> Proc \cup {None}]
          /\ route \in [Conn -> Route \cup {"none"}] /\ pc[c] \notin {"open", "closed"}
      BY <1>2 DEF ServerInv, TypeOK, Busy
    <2>7. ASSUME NEW d \in Conn, Abort(d) PROVE pc'[c] = pc[c] /\ at'[c] = at[c] /\ route'[c] = route[c]
      BY <2>7 DEF Abort
    <2>1. ASSUME NEW d \in Conn, Request(d) \/ HangUp(d) \/ Serve(d)
          PROVE  pc'[c] = pc[c] /\ at'[c] = at[c] /\ route'[c] = route[c]
      <3>1. d # c
        BY <1>2, <2>0, <2>1 DEF Request, HangUp
      <3>2. \E w : pc' = [pc EXCEPT ![d] = w]
        BY <2>1 DEF Request, HangUp, Serve, globalRateLimiter, routeLimiter, Handle, Answer, GoOn
      <3>3. at' = at \/ \E w : at' = [at EXCEPT ![d] = w]
        BY <2>1 DEF Request, HangUp, Serve, globalRateLimiter, routeLimiter, Handle, Answer, GoOn
      <3>4. route' = route \/ \E w : route' = [route EXCEPT ![d] = w]
        BY <2>1 DEF Request, HangUp, Serve, globalRateLimiter, routeLimiter, Handle, Answer, GoOn
      <3> QED BY <2>0, <3>1, <3>2, <3>3, <3>4
    <2>2. ASSUME NEW q \in Proc, Exit(q)
          PROVE  pc'[c] = "closed" \/ (pc'[c] = pc[c] /\ at'[c] = at[c] /\ route'[c] = route[c])
      BY <2>2 DEF Exit
    <2>3. ASSUME NEW q \in Proc, NEW n \in Signal, shutdown(q, n)
          PROVE  pc'[c] = pc[c] /\ at'[c] = at[c] /\ route'[c] = route[c]
      BY <2>0, <2>3 DEF shutdown
    <2>4. ASSUME \/ \E q \in Proc : \/ Start(q) \/ bootstrap(q)
                                    \/ \E n \in Signal : \/ stopBulkOrderWorker(q, n) \/ WorkerClosed(q, n)
                                                         \/ DatabaseClosed(q, n) \/ StepFails(q, n)
                 \/ \E j \in Job : FinishJob(j) \/ Recover(j) \/ \E q \in Proc : Take(j, q)
                 \/ RedisDown \/ RedisBack \/ Pass \/ UNCHANGED vars
          PROVE  UNCHANGED <<pc, at, route>>
      BY <2>4 DEF Start, bootstrap, initRedis, initDatabase, registerCourierAdapters, Listen, Proceed,
           stopBulkOrderWorker, WorkerClosed, DatabaseClosed, StepFails, FinishJob, Recover, Take, RedisDown,
           RedisBack, Pass, vars, http
    <2>5. \A q \in Proc : Die(q) => Exit(q)
      BY DEF Die
    <2>6. \A q \in Proc, n \in Signal : QuitAndExit(q, n) => Exit(q)
      BY DEF QuitAndExit
    <2> QED BY <1>2, <2>7, <2>1, <2>2, <2>3, <2>4, <2>5, <2>6 DEF Next, ShutdownStep
  <1>3. ServerInv /\ [Next]_vars =>
          [\A c \in Conn :
               /\ Serve(c) => Awaits(pc'[c]) < Awaits(pc[c])
               /\ pc[c] \in Busy => \/ Serve(c) \/ pc'[c] = "closed"
                                    \/ pc'[c] = pc[c] /\ at'[c] = at[c] /\ route'[c] = route[c]]_vars
    BY <1>1, <1>2
  <1> QED BY <1>3, ServerCorrect, PTL DEF Spec
=============================================================================
