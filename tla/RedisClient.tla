----------------------------- MODULE RedisClient -----------------------------
(***************************************************************************)
(* The Redis client of a process: the module globals _pool and _client of   *)
(* redis_client.py, and the threads that use them: Main, which runs the     *)
(* application's lifespan, and the threads of the requests.  No lock guards *)
(* the globals: every access to one of them, and every command sent to      *)
(* Redis, is a step of its own.                                             *)
(*                                                                          *)
(* Pools are named after the threads that built them, and clients after     *)
(* their pools.  The process runs with the lifespan, as under uvicorn, or  *)
(* without it, as when the service is used as a library: then the first     *)
(* requests initialize Redis, lazily.                                       *)
(***************************************************************************)
EXTENDS Naturals

CONSTANTS Main, Requests,
          None        \* no client, no pool, no answer

Answers == {"done", "unavailable", "healthy", "degraded", "metrics", "fakeredis"}

ASSUME RedisClientAssumption ==
  /\ Main \notin Requests
  /\ None \notin Requests \cup {Main} \cup Answers

VARIABLES server,   \* how Redis answers, as long as it does not change
          seen,     \* history: whether it was up, or was not, while the request ran
          lifespan, \* whether the process runs the lifespan
          app,      \* "starting", "serving", "stopping", "stopped"
          pool, client,  \* the globals _pool and _client
          open,     \* the pools built and not disconnected
          pc, calling,   \* where each thread is, and what it returns to
          attempt,  \* init_redis: the attempt, from 0
          mine,     \* the client the thread has made or been given
          answer    \* what a request was answered

globals == <<pool, client, open>>
threads == <<pc, calling, attempt, mine, answer>>
vars == <<server, seen, lifespan, app, globals, threads>>

Threads == Requests \cup {Main}
MaxAttempts == 3

\* "loading" refuses PING and answers INFO; "errs" replies with an error, a
\* wrong password among others.
Servers == {"up", "loading", "down", "errs"}
Health == IF server = "up" THEN {"up"} ELSE {"impaired"}
Kinds == {"operation", "health", "metrics"}
Continuations == {"lifespan", "operation", "health", "metrics", "metrics_again", "none"}

TypeOK ==
  /\ server \in Servers
  /\ seen \in [Requests -> SUBSET {"up", "impaired"}]
  /\ lifespan \in BOOLEAN
  /\ app \in {"starting", "serving", "stopping", "stopped"}
  /\ {pool, client} \subseteq Threads \cup {None}
  /\ open \subseteq Threads
  /\ pc \in [Threads -> {"idle", "get", "return", "init", "build", "make", "publish", "ping",
                         "info", "sleep", "got", "failed", "health_ping", "health_info",
                         "metrics_info", "close", "answered", "serving", "stopped"}]
  /\ calling \in [Threads -> Continuations]
  /\ attempt \in [Threads -> 0..MaxAttempts - 1]
  /\ mine \in [Threads -> Threads \cup {None}]
  /\ answer \in [Requests -> Answers \cup {None}]

Init ==
  /\ server \in Servers
  /\ seen = [t \in Requests |-> {}]
  /\ lifespan \in BOOLEAN
  /\ app = IF lifespan THEN "starting" ELSE "serving"
  /\ pool = None /\ client = None /\ open = {}
  /\ pc = [t \in Threads |-> IF t = Main THEN (IF lifespan THEN "init" ELSE "serving") ELSE "idle"]
  /\ calling = [t \in Threads |-> IF t = Main THEN "lifespan" ELSE "none"]
  /\ attempt = [t \in Threads |-> 0]
  /\ mine = [t \in Threads |-> None]
  /\ answer = [t \in Requests |-> None]

-----------------------------------------------------------------------------
Goto(t, at) == pc' = [pc EXCEPT ![t] = at]
Stay(t, at) == Goto(t, at) /\ UNCHANGED <<attempt, mine>>
Return(t, c) ==
  /\ Goto(t, "got")
  /\ mine' = [mine EXCEPT ![t] = c]
  /\ attempt' = [attempt EXCEPT ![t] = 0]
Raise(t) ==
  /\ Goto(t, "failed")
  /\ mine' = [mine EXCEPT ![t] = None]
  /\ attempt' = [attempt EXCEPT ![t] = 0]

\* A step of init_redis or get_redis.
Local == UNCHANGED <<server, seen, lifespan, app, calling, answer>>

\* What a command meets: PING and INFO succeed, or raise.
Pings == server = "up"
Infos == server \in {"up", "loading"}

-----------------------------------------------------------------------------
(* get_redis and init_redis                                                 *)

\* get_redis looks at _client, and reads it again to return it.
GetRedis(t) ==
  /\ pc[t] = "get"
  /\ Stay(t, IF client = None THEN "init" ELSE "return")
  /\ UNCHANGED globals /\ Local

ReturnClient(t) ==
  /\ pc[t] = "return"
  /\ Return(t, client)
  /\ UNCHANGED globals /\ Local

\* init_redis: an existing client is returned without a PING.
InitRedis(t) ==
  /\ pc[t] = "init"
  /\ Stay(t, IF client = None THEN "build" ELSE "return")
  /\ UNCHANGED globals /\ Local

\* Mutant: the pool that is replaced is disconnected.
BuildPoolClosingOther(t) ==
  /\ pc[t] = "build"
  /\ pool' = t
  /\ open' = (open \ {pool}) \cup {t}
  /\ Stay(t, "make")
  /\ UNCHANGED client /\ Local

BuildPool(t) ==
  /\ pc[t] = "build"
  /\ pool' = t
  /\ open' = open \cup {t}
  /\ Stay(t, "make")
  /\ UNCHANGED client /\ Local

\* The client is made of the global _pool, whoever built it.
MakeClient(t) ==
  /\ pc[t] = "make"
  /\ Goto(t, "publish")
  /\ mine' = [mine EXCEPT ![t] = pool]
  /\ UNCHANGED <<globals, attempt>> /\ Local

\* It is everybody's before its first PING.
PublishClient(t) ==
  /\ pc[t] = "publish"
  /\ client' = mine[t]
  /\ Stay(t, "ping")
  /\ UNCHANGED <<pool, open>> /\ Local

\* Mutant: one attempt too many.
AttemptFailsOnceMore(t) ==
  IF server \in {"down", "loading"} /\ attempt[t] < MaxAttempts
  THEN Stay(t, "sleep")
  ELSE Raise(t)

\* An attempt fails with one of three kinds of error: a wrong password, a
\* connection that fails or is refused while Redis loads, or any other error
\* reply; only the second kind is retried.
AttemptFails(t) ==
  IF server \in {"down", "loading"} /\ attempt[t] < MaxAttempts - 1
  THEN Stay(t, "sleep")
  ELSE Raise(t)

\* Mutant: a client that could not be initialized is forgotten.
PingForgettingClient(t) ==
  /\ pc[t] = "ping"
  /\ IF Pings THEN Stay(t, "info") ELSE AttemptFails(t)
  /\ client' = IF pc'[t] = "failed" THEN None ELSE client
  /\ UNCHANGED <<pool, open>> /\ Local

Ping(t) ==
  /\ pc[t] = "ping"
  /\ IF Pings THEN Stay(t, "info") ELSE AttemptFails(t)
  /\ UNCHANGED globals /\ Local

\* What is returned is the global, whoever assigned it last.
Info(t) ==
  /\ pc[t] = "info"
  /\ IF Infos THEN Return(t, client) ELSE AttemptFails(t)
  /\ UNCHANGED globals /\ Local

\* Mutant: the attempts are not counted.
SleepUncounted(t) ==
  /\ pc[t] = "sleep"
  /\ Stay(t, "ping")
  /\ UNCHANGED globals /\ Local

Sleep(t) ==
  /\ pc[t] = "sleep"
  /\ attempt' = [attempt EXCEPT ![t] = @ + 1]
  /\ Goto(t, "ping")
  /\ UNCHANGED <<globals, mine>> /\ Local

InitOrGet(t) == \/ GetRedis(t) \/ ReturnClient(t) \/ InitRedis(t) \/ BuildPool(t)
                \/ MakeClient(t) \/ PublishClient(t) \/ Ping(t) \/ Info(t) \/ Sleep(t)

-----------------------------------------------------------------------------
(* The lifespan                                                             *)

\* Mutant: the application starts only with Redis.
StartedConnected ==
  /\ app = "starting"
  /\ pc[Main] = "got"
  /\ app' = "serving"
  /\ Goto(Main, "serving")
  /\ UNCHANGED <<server, seen, lifespan, globals, calling, attempt, mine, answer>>

\* Redis or not, the application serves.
Started ==
  /\ app = "starting"
  /\ pc[Main] \in {"got", "failed"}
  /\ app' = "serving"
  /\ Goto(Main, "serving")
  /\ UNCHANGED <<server, seen, lifespan, globals, calling, attempt, mine, answer>>

\* uvicorn stops accepting requests, waits for those it has, and shuts down.
Stop ==
  /\ lifespan
  /\ app = "serving"
  /\ app' = "stopping"
  /\ UNCHANGED <<server, seen, lifespan, globals, threads>>

Drained ==
  /\ app = "stopping"
  /\ pc[Main] = "serving"
  /\ \A t \in Requests : pc[t] \in {"idle", "answered"}
  /\ Goto(Main, "close")
  /\ UNCHANGED <<server, seen, lifespan, app, globals, calling, attempt, mine, answer>>

\* close_redis; closing the client leaves its pool open, and disconnecting the
\* pool may fail.
CloseRedis ==
  /\ pc[Main] = "close"
  /\ open' \in {open, open \ {pool}}
  /\ client' = None
  /\ pool' = None
  /\ app' = "stopped"
  /\ Goto(Main, "stopped")
  /\ UNCHANGED <<server, seen, lifespan, calling, attempt, mine, answer>>

-----------------------------------------------------------------------------
(* The requests                                                             *)

Arrive(t, k) ==
  /\ app = "serving"
  /\ pc[t] = "idle"
  /\ calling' = [calling EXCEPT ![t] = k]
  /\ seen' = [seen EXCEPT ![t] = Health]
  /\ Goto(t, "get")
  /\ UNCHANGED <<server, lifespan, app, globals, attempt, mine, answer>>

Reply(t, a) ==
  /\ Goto(t, "answered")
  /\ answer' = [answer EXCEPT ![t] = a]
  /\ calling' = [calling EXCEPT ![t] = "none"]
  /\ mine' = [mine EXCEPT ![t] = None]

Go(t, at, c) ==
  /\ Goto(t, at)
  /\ calling' = [calling EXCEPT ![t] = c]
  /\ UNCHANGED <<mine, answer>>

Step(t) == UNCHANGED <<server, seen, lifespan, app, globals, attempt>>

\* Mutant: the metrics are collected without a health check.
AfterGetUnchecked(t) ==
  LET c == calling[t]
  IN /\ pc[t] = "got"
     /\ \/ c = "operation" /\ Reply(t, "done")
        \/ c = "health" /\ Go(t, "health_ping", c)
        \/ c \in {"metrics", "metrics_again"} /\ Go(t, "metrics_info", c)
     /\ Step(t)

\* get_redis has returned.  An operation goes on to its commands, which are the
\* business of other modules.
AfterGet(t) ==
  LET c == calling[t]
  IN /\ pc[t] = "got"
     /\ \/ c = "operation" /\ Reply(t, "done")
        \/ c \in {"health", "metrics"} /\ Go(t, "health_ping", c)
        \/ c = "metrics_again" /\ Go(t, "metrics_info", c)
     /\ Step(t)

Unhealthy(t) == Reply(t, IF calling[t] = "health" THEN "degraded" ELSE "unavailable")

\* get_redis has raised RedisUnavailableError: 503, but for the health check.
GetFailed(t) ==
  /\ pc[t] = "failed"
  /\ Unhealthy(t)
  /\ Step(t)

\* Mutant: the answer to the PING is not looked at.
HealthPingIgnored(t) ==
  pc[t] = "health_ping" /\ Go(t, "health_info", calling[t]) /\ Step(t)

\* is_redis_healthy: a PING, which must succeed.
HealthPing(t) ==
  /\ pc[t] = "health_ping"
  /\ IF Pings THEN Go(t, "health_info", calling[t]) ELSE Unhealthy(t)
  /\ Step(t)

\* Its INFO decides only when it is answered; the metrics then ask again.
HealthInfo(t) ==
  /\ pc[t] = "health_info"
  /\ IF server = "loading" THEN Unhealthy(t)
     ELSE IF calling[t] = "health" THEN Reply(t, "healthy")
     ELSE Go(t, "get", "metrics_again")
  /\ Step(t)

\* get_redis_metrics: an INFO that fails is answered with fixed values.
MetricsInfo(t) ==
  /\ pc[t] = "metrics_info"
  /\ Reply(t, IF Infos THEN "metrics" ELSE "fakeredis")
  /\ Step(t)

Handle(t) == AfterGet(t) \/ GetFailed(t) \/ HealthPing(t) \/ HealthInfo(t) \/ MetricsInfo(t)

-----------------------------------------------------------------------------
\* Redis goes down, comes up, loads, or changes its password.
ServerChanges ==
  /\ server' \in Servers \ {server}
  /\ seen' = [t \in Requests |-> IF pc[t] \in {"idle", "answered"} THEN seen[t]
                                 ELSE seen[t] \cup Health']
  /\ UNCHANGED <<lifespan, app, globals, threads>>

Next == \/ \E t \in Threads : InitOrGet(t)
        \/ \E t \in Requests : Handle(t) \/ \E k \in Kinds : Arrive(t, k)
        \/ Started \/ Stop \/ Drained \/ CloseRedis
        \/ ServerChanges

Spec == Init /\ [][Next]_vars

\* Threads that can run do: every command is bounded by the socket timeout.
FairSpec ==
  /\ Spec
  /\ WF_vars(InitOrGet(Main)) /\ WF_vars(Started)
  /\ \A t \in Requests : WF_vars(InitOrGet(t) \/ Handle(t))

-----------------------------------------------------------------------------
(* Properties.                                                              *)

\* Under the lifespan one client and one pool serve every request, also when
\* Redis was not there at startup: the client is published before its first
\* PING and stays when init_redis raises, so that no request initializes again.
OneClient ==
  lifespan => /\ open \subseteq {Main}
              /\ \A t \in Threads : mine[t] \in {Main, None}
              /\ app = "serving" => client = Main /\ pool = Main

\* Whoever gets a client gets one, and its pool is open as long as it is used: in
\* a race to initialize, where pools are built twice and the client returned may
\* be another thread's, and in a race with the shutdown.
UsesClient == {"got", "health_ping", "health_info", "metrics_info"}
NoRequestWithoutClient == \A t \in Requests : pc[t] \in UsesClient => mine[t] \in open

\* A health answer is true of some moment while the request ran: "healthy" is
\* said only if Redis was up then, and "degraded" only if it was not.
HealthIsTrue ==
  \A t \in Requests :
    /\ answer[t] = "healthy" => "up" \in seen[t]
    /\ answer[t] = "degraded" => seen[t] # {"up"}

\* The metrics are made up only when Redis fails between the health check and
\* the INFO that follows it.
MadeUpOnlyInRace ==
  \A t \in Requests :
    answer[t] = "fakeredis" => seen[t] = {"up", "impaired"}

\* The application starts, whatever Redis does.
Starts == <>(app # "starting")

\* Every request is answered.
EveryRequestAnswered == \A t \in Requests : pc[t] = "get" ~> pc[t] = "answered"
=============================================================================
