-------------------------- MODULE RedisClientProofs --------------------------
(***************************************************************************)
(* Proofs about RedisClient, for any number of request threads and any      *)
(* behaviour of Redis, with the lifespan and without it.                    *)
(***************************************************************************)
EXTENDS RedisClient, TLAPS

Quiet == {"idle", "answered"}

\* Which thread can be where, by the phase of the application: the requests of
\* a process with a lifespan come between its start and its stop.
Phases ==
  /\ \A t \in Requests : pc[t] \notin {"close", "serving", "stopped"}
  /\ ~lifespan => app = "serving"
  /\ app = "starting" => /\ lifespan
                         /\ \A t \in Requests : pc[t] = "idle"
                         /\ pc[Main] \in {"init", "build", "make", "publish", "ping", "info",
                                          "sleep", "got", "failed"}
  /\ app = "serving" => pc[Main] = "serving"
  /\ app = "stopping" => pc[Main] \in {"serving", "close"}
  /\ app = "stopped" => pc[Main] = "stopped"
  /\ pc[Main] \in {"close", "stopped"} => lifespan /\ \A t \in Requests : pc[t] \in Quiet

\* Under the lifespan Main alone initializes, and its client stays published
\* from before its first PING until it is closed.
MainInitializes ==
  lifespan =>
    /\ \A t \in Requests : pc[t] \in Quiet \cup {"get", "return", "got", "health_ping",
                                                 "health_info", "metrics_info"}
    /\ pc[Main] \in {"init", "build"} => client = None
    /\ pc[Main] \in {"make", "publish"} => client = None /\ pool = Main
    /\ pc[Main] = "publish" => mine[Main] = Main
    /\ pc[Main] \in {"ping", "info", "sleep", "got", "failed", "serving", "close"} =>
         client = Main /\ pool = Main
    /\ open \subseteq {Main}
    /\ \A t \in Threads : mine[t] \in {Main, None}

\* The pool, the client or the thread's own reference is open when it is used, and
\* so is the client that is published.
ThereWhenUsed ==
  \A t \in Threads :
    /\ pc[t] = "make" => pool \in open
    /\ pc[t] = "publish" => mine[t] \in open
    /\ pc[t] \in {"return", "ping", "info", "sleep"} => client \in open
    /\ t \in Requests /\ pc[t] \in UsesClient => mine[t] \in open
    /\ client \in open \cup {None}

\* A thread sleeps only before an attempt it has left.
AttemptLeft == \A t \in Threads : pc[t] = "sleep" => attempt[t] < MaxAttempts - 1

\* What a running request has seen of Redis includes how it is now, and what
\* the request has found out.
SeenIsTrue ==
  \A t \in Requests :
    /\ pc[t] \notin Quiet => Health \subseteq seen[t]
    /\ pc[t] # "answered" => answer[t] = None
    /\ pc[t] \in {"health_info", "metrics_info"} => "up" \in seen[t]
    /\ pc[t] \notin Quiet /\ calling[t] = "metrics_again" => "up" \in seen[t]
    /\ pc[t] = "failed" => "impaired" \in seen[t]

IInv == /\ TypeOK
        /\ Phases
        /\ MainInitializes
        /\ ThereWhenUsed
        /\ AttemptLeft
        /\ SeenIsTrue
        /\ HealthIsTrue
        /\ MadeUpOnlyInRace

LEMMA InitIInv == Init => IInv
<1> SUFFICES ASSUME Init PROVE IInv
  OBVIOUS
<1> USE RedisClientAssumption DEF Init, Threads, Quiet
<1>1. TypeOK
  BY DEF TypeOK, Continuations, MaxAttempts
<1>2. Phases
  BY DEF Phases
<1>3. MainInitializes
  BY DEF MainInitializes
<1>4. ThereWhenUsed /\ AttemptLeft
  BY DEF ThereWhenUsed, UsesClient, AttemptLeft
<1>5. SeenIsTrue /\ HealthIsTrue /\ MadeUpOnlyInRace
  BY DEF SeenIsTrue, HealthIsTrue, MadeUpOnlyInRace, Answers
<1> QED  BY <1>1, <1>2, <1>3, <1>4, <1>5 DEF IInv

-----------------------------------------------------------------------------
LEMMA InitKeepsType ==
  ASSUME TypeOK, AttemptLeft, NEW t \in Threads, InitOrGet(t)
  PROVE  TypeOK'
<1> USE DEF TypeOK, Stay, Goto, Local, globals, Return, Raise, Threads, MaxAttempts
<1>1. CASE GetRedis(t)
  BY <1>1 DEF GetRedis
<1>2. CASE ReturnClient(t)
  BY <1>2 DEF ReturnClient
<1>3. CASE InitRedis(t)
  BY <1>3 DEF InitRedis
<1>4. CASE BuildPool(t)
  BY <1>4 DEF BuildPool
<1>5. CASE MakeClient(t)
  BY <1>5 DEF MakeClient
<1>6. CASE PublishClient(t)
  BY <1>6 DEF PublishClient
<1>7. CASE Ping(t)
  BY <1>7 DEF Ping, AttemptFails
<1>8. CASE Info(t)
  BY <1>8 DEF Info, AttemptFails
<1>9. CASE Sleep(t)
  BY <1>9 DEF Sleep, AttemptLeft
<1> QED
  BY <1>1, <1>2, <1>3, <1>4, <1>5, <1>6, <1>7, <1>8, <1>9 DEF InitOrGet

LEMMA InitKeepsPhases ==
  ASSUME IInv, NEW t \in Threads, InitOrGet(t)
  PROVE  Phases'
<1> USE RedisClientAssumption DEF IInv, TypeOK, Stay, Goto, Local, globals, Return, Raise, Threads
<1>1. CASE GetRedis(t)
  BY <1>1 DEF GetRedis, Phases, Quiet
<1>2. CASE ReturnClient(t)
  BY <1>2 DEF ReturnClient, Phases, Quiet
<1>3. CASE InitRedis(t)
  BY <1>3 DEF InitRedis, Phases, Quiet, MainInitializes
<1>4. CASE BuildPool(t)
  BY <1>4 DEF BuildPool, Phases, Quiet
<1>5. CASE MakeClient(t)
  BY <1>5 DEF MakeClient, Phases, Quiet
<1>6. CASE PublishClient(t)
  BY <1>6 DEF PublishClient, Phases, Quiet
<1>7. CASE Ping(t)
  BY <1>7 DEF Ping, AttemptFails, Phases, Quiet
<1>8. CASE Info(t)
  BY <1>8 DEF Info, AttemptFails, Phases, Quiet
<1>9. CASE Sleep(t)
  BY <1>9 DEF Sleep, Phases, Quiet
<1> QED
  BY <1>1, <1>2, <1>3, <1>4, <1>5, <1>6, <1>7, <1>8, <1>9 DEF InitOrGet

LEMMA InitKeepsFirst ==
  ASSUME IInv, NEW t \in Threads, InitOrGet(t)
  PROVE  MainInitializes'
<1> USE RedisClientAssumption DEF IInv, TypeOK, Stay, Goto, Local, globals, Return, Raise, Threads
<1>1. CASE GetRedis(t)
  BY <1>1 DEF GetRedis, MainInitializes, Phases, Quiet
<1>2. CASE ReturnClient(t)
  BY <1>2 DEF ReturnClient, MainInitializes, Phases, Quiet
<1>3. CASE InitRedis(t)
  BY <1>3 DEF InitRedis, MainInitializes, Quiet
<1>4. CASE BuildPool(t)
  BY <1>4 DEF BuildPool, MainInitializes, Quiet
<1>5. CASE MakeClient(t)
  BY <1>5 DEF MakeClient, MainInitializes, Quiet
<1>6. CASE PublishClient(t)
  BY <1>6 DEF PublishClient, MainInitializes, Quiet
<1>7. CASE Ping(t)
  BY <1>7 DEF Ping, AttemptFails, MainInitializes, Quiet
<1>8. CASE Info(t)
  BY <1>8 DEF Info, AttemptFails, MainInitializes, Quiet
<1>9. CASE Sleep(t)
  BY <1>9 DEF Sleep, MainInitializes, Quiet
<1> QED
  BY <1>1, <1>2, <1>3, <1>4, <1>5, <1>6, <1>7, <1>8, <1>9 DEF InitOrGet

LEMMA InitKeepsThere ==
  ASSUME IInv, NEW t \in Threads, InitOrGet(t)
  PROVE  (ThereWhenUsed /\ AttemptLeft)'
<1> USE RedisClientAssumption DEF IInv, TypeOK, Stay, Goto, Local, globals, Return, Raise, Threads
<1>1. CASE GetRedis(t)
  BY <1>1 DEF GetRedis, ThereWhenUsed, UsesClient, AttemptLeft
<1>2. CASE ReturnClient(t)
  BY <1>2 DEF ReturnClient, ThereWhenUsed, UsesClient, AttemptLeft
<1>3. CASE InitRedis(t)
  BY <1>3 DEF InitRedis, ThereWhenUsed, UsesClient, AttemptLeft
<1>4. CASE BuildPool(t)
  BY <1>4 DEF BuildPool, ThereWhenUsed, UsesClient, AttemptLeft
<1>5. CASE MakeClient(t)
  BY <1>5 DEF MakeClient, ThereWhenUsed, UsesClient, AttemptLeft, Phases
<1>6. CASE PublishClient(t)
  BY <1>6 DEF PublishClient, ThereWhenUsed, UsesClient, AttemptLeft, Phases
<1>7. CASE Ping(t)
  BY <1>7 DEF Ping, AttemptFails, Pings, Infos, ThereWhenUsed, UsesClient, AttemptLeft, Phases
<1>8. CASE Info(t)
  BY <1>8 DEF Info, AttemptFails, Pings, Infos, ThereWhenUsed, UsesClient, AttemptLeft, Phases
<1>9. CASE Sleep(t)
  BY <1>9 DEF Sleep, ThereWhenUsed, UsesClient, AttemptLeft, Phases
<1> QED
  BY <1>1, <1>2, <1>3, <1>4, <1>5, <1>6, <1>7, <1>8, <1>9 DEF InitOrGet

LEMMA InitKeepsSeen ==
  ASSUME IInv, NEW t \in Threads, InitOrGet(t)
  PROVE  (SeenIsTrue /\ HealthIsTrue /\ MadeUpOnlyInRace)'
<1> USE RedisClientAssumption DEF IInv, TypeOK, Stay, Goto, Local, globals, Return, Raise, Threads
<1>1. CASE GetRedis(t)
  BY <1>1 DEF GetRedis, SeenIsTrue, HealthIsTrue, MadeUpOnlyInRace, Quiet, Health, Phases, Servers
<1>2. CASE ReturnClient(t)
  BY <1>2 DEF ReturnClient, SeenIsTrue, HealthIsTrue, MadeUpOnlyInRace, Quiet, Health, Phases, Servers
<1>3. CASE InitRedis(t)
  BY <1>3 DEF InitRedis, SeenIsTrue, HealthIsTrue, MadeUpOnlyInRace, Quiet, Health, Phases, Servers
<1>4. CASE BuildPool(t)
  BY <1>4 DEF BuildPool, SeenIsTrue, HealthIsTrue, MadeUpOnlyInRace, Quiet, Health, Phases, Servers
<1>5. CASE MakeClient(t)
  BY <1>5 DEF MakeClient, SeenIsTrue, HealthIsTrue, MadeUpOnlyInRace, Quiet, Health, Phases, Servers
<1>6. CASE PublishClient(t)
  BY <1>6 DEF PublishClient, SeenIsTrue, HealthIsTrue, MadeUpOnlyInRace, Quiet, Health, Phases, Servers
<1>7. CASE Ping(t)
  BY <1>7 DEF Ping, AttemptFails, Pings, Infos, SeenIsTrue, HealthIsTrue, MadeUpOnlyInRace, Quiet, Health, Phases, Servers
<1>8. CASE Info(t)
  BY <1>8 DEF Info, AttemptFails, Pings, Infos, SeenIsTrue, HealthIsTrue, MadeUpOnlyInRace, Quiet, Health, Phases, Servers
<1>9. CASE Sleep(t)
  BY <1>9 DEF Sleep, SeenIsTrue, HealthIsTrue, MadeUpOnlyInRace, Quiet, Health, Phases, Servers
<1> QED
  BY <1>1, <1>2, <1>3, <1>4, <1>5, <1>6, <1>7, <1>8, <1>9 DEF InitOrGet

-----------------------------------------------------------------------------

LEMMA HandleKeepsType ==
  ASSUME IInv, NEW t \in Requests, Handle(t)
  PROVE  TypeOK'
<1> USE RedisClientAssumption DEF IInv, TypeOK, Step, Goto, globals, Threads
<1>1. CASE AfterGet(t)
  BY <1>1 DEF AfterGet, Go, Reply, Answers, Continuations, Kinds
<1>2. CASE GetFailed(t)
  BY <1>2 DEF GetFailed, Unhealthy, Reply, Answers, Continuations, Kinds
<1>3. CASE HealthPing(t)
  BY <1>3 DEF HealthPing, Go, Unhealthy, Reply, Pings, Answers, Continuations, Kinds
<1>4. CASE HealthInfo(t)
  BY <1>4 DEF HealthInfo, Go, Unhealthy, Reply, Answers, Continuations, Kinds
<1>5. CASE MetricsInfo(t)
  BY <1>5 DEF MetricsInfo, Reply, Infos, Answers, Continuations, Kinds
<1> QED
  BY <1>1, <1>2, <1>3, <1>4, <1>5 DEF Handle

LEMMA HandleKeepsPhases ==
  ASSUME IInv, NEW t \in Requests, Handle(t)
  PROVE  Phases'
<1> USE RedisClientAssumption DEF IInv, TypeOK, Step, Goto, globals, Threads
<1>1. CASE AfterGet(t)
  BY <1>1 DEF AfterGet, Go, Reply, Phases, Quiet
<1>2. CASE GetFailed(t)
  BY <1>2 DEF GetFailed, Unhealthy, Reply, Phases, Quiet
<1>3. CASE HealthPing(t)
  BY <1>3 DEF HealthPing, Go, Unhealthy, Reply, Pings, Phases, Quiet
<1>4. CASE HealthInfo(t)
  BY <1>4 DEF HealthInfo, Go, Unhealthy, Reply, Phases, Quiet
<1>5. CASE MetricsInfo(t)
  BY <1>5 DEF MetricsInfo, Reply, Infos, Phases, Quiet
<1> QED
  BY <1>1, <1>2, <1>3, <1>4, <1>5 DEF Handle

LEMMA HandleKeepsFirst ==
  ASSUME IInv, NEW t \in Requests, Handle(t)
  PROVE  MainInitializes'
<1> USE RedisClientAssumption DEF IInv, TypeOK, Step, Goto, globals, Threads
<1>1. CASE AfterGet(t)
  BY <1>1 DEF AfterGet, Go, Reply, MainInitializes, Phases, Quiet
<1>2. CASE GetFailed(t)
  BY <1>2 DEF GetFailed, Unhealthy, Reply, MainInitializes, Phases, Quiet
<1>3. CASE HealthPing(t)
  BY <1>3 DEF HealthPing, Go, Unhealthy, Reply, Pings, MainInitializes, Phases, Quiet
<1>4. CASE HealthInfo(t)
  BY <1>4 DEF HealthInfo, Go, Unhealthy, Reply, MainInitializes, Phases, Quiet
<1>5. CASE MetricsInfo(t)
  BY <1>5 DEF MetricsInfo, Reply, Infos, MainInitializes, Phases, Quiet
<1> QED
  BY <1>1, <1>2, <1>3, <1>4, <1>5 DEF Handle

LEMMA HandleKeepsThere ==
  ASSUME IInv, NEW t \in Requests, Handle(t)
  PROVE  (ThereWhenUsed /\ AttemptLeft)'
<1> USE RedisClientAssumption DEF IInv, TypeOK, Step, Goto, globals, Threads
<1>1. CASE AfterGet(t)
  BY <1>1 DEF AfterGet, Go, Reply, ThereWhenUsed, UsesClient, AttemptLeft, Phases
<1>2. CASE GetFailed(t)
  BY <1>2 DEF GetFailed, Unhealthy, Reply, ThereWhenUsed, UsesClient, AttemptLeft, Phases
<1>3. CASE HealthPing(t)
  BY <1>3 DEF HealthPing, Go, Unhealthy, Reply, Pings, ThereWhenUsed, UsesClient, AttemptLeft, Phases
<1>4. CASE HealthInfo(t)
  BY <1>4 DEF HealthInfo, Go, Unhealthy, Reply, ThereWhenUsed, UsesClient, AttemptLeft, Phases
<1>5. CASE MetricsInfo(t)
  BY <1>5 DEF MetricsInfo, Reply, Infos, ThereWhenUsed, UsesClient, AttemptLeft, Phases
<1> QED
  BY <1>1, <1>2, <1>3, <1>4, <1>5 DEF Handle

LEMMA HandleKeepsSeen ==
  ASSUME IInv, NEW t \in Requests, Handle(t)
  PROVE  (SeenIsTrue /\ HealthIsTrue /\ MadeUpOnlyInRace)'
<1> USE RedisClientAssumption DEF IInv, TypeOK, Step, Goto, globals, Threads
<1>1. CASE AfterGet(t)
  BY <1>1 DEF AfterGet, Go, Reply, SeenIsTrue, HealthIsTrue, MadeUpOnlyInRace, Quiet, Health, Phases, Servers, Answers
<1>2. CASE GetFailed(t)
  BY <1>2 DEF GetFailed, Unhealthy, Reply, SeenIsTrue, HealthIsTrue, MadeUpOnlyInRace, Quiet, Health, Phases, Servers, Answers
<1>3. CASE HealthPing(t)
  BY <1>3 DEF HealthPing, Go, Unhealthy, Reply, Pings, SeenIsTrue, HealthIsTrue, MadeUpOnlyInRace, Quiet, Health, Phases, Servers, Answers
<1>4. CASE HealthInfo(t)
  BY <1>4 DEF HealthInfo, Go, Unhealthy, Reply, SeenIsTrue, HealthIsTrue, MadeUpOnlyInRace, Quiet, Health, Phases, Servers, Answers
<1>5. CASE MetricsInfo(t)
  BY <1>5 DEF MetricsInfo, Reply, Infos, SeenIsTrue, HealthIsTrue, MadeUpOnlyInRace, Quiet, Health, Phases, Servers, Answers
<1> QED
  BY <1>1, <1>2, <1>3, <1>4, <1>5 DEF Handle

-----------------------------------------------------------------------------

LEMMA ArriveKeepsIInv ==
  ASSUME IInv, NEW t \in Requests, NEW k \in Kinds, Arrive(t, k)
  PROVE  IInv'
<1> USE RedisClientAssumption DEF IInv, TypeOK, Arrive, Kinds, Goto, globals, Threads
<1>1. TypeOK'
  BY DEF Answers, Continuations, Kinds, Health
<1>2. Phases'
  BY DEF Phases, Quiet
<1>3. MainInitializes'
  BY DEF MainInitializes, Phases, Quiet
<1>4. (ThereWhenUsed /\ AttemptLeft)'
  BY DEF ThereWhenUsed, UsesClient, AttemptLeft, Phases
<1>5. (SeenIsTrue /\ HealthIsTrue /\ MadeUpOnlyInRace)'
  BY DEF SeenIsTrue, HealthIsTrue, MadeUpOnlyInRace, Quiet, Health, Phases, Servers, Answers, Kinds
<1> QED
  BY <1>1, <1>2, <1>3, <1>4, <1>5

LEMMA StartedKeepsIInv ==
  ASSUME IInv, Started
  PROVE  IInv'
<1> USE RedisClientAssumption DEF IInv, TypeOK, Started, Goto, globals, Threads
<1>1. TypeOK'
  BY DEF Answers, Continuations, Kinds, Health
<1>2. Phases'
  BY DEF Phases, Quiet
<1>3. MainInitializes'
  BY DEF MainInitializes, Phases, Quiet
<1>4. (ThereWhenUsed /\ AttemptLeft)'
  BY DEF ThereWhenUsed, UsesClient, AttemptLeft, Phases
<1>5. (SeenIsTrue /\ HealthIsTrue /\ MadeUpOnlyInRace)'
  BY DEF SeenIsTrue, HealthIsTrue, MadeUpOnlyInRace, Quiet, Health, Phases, Servers, Answers, Kinds
<1> QED
  BY <1>1, <1>2, <1>3, <1>4, <1>5

LEMMA StopKeepsIInv ==
  ASSUME IInv, Stop
  PROVE  IInv'
<1> USE RedisClientAssumption DEF IInv, TypeOK, Stop, threads, Goto, globals, Threads
<1>1. TypeOK'
  BY DEF Answers, Continuations, Kinds, Health
<1>2. Phases'
  BY DEF Phases, Quiet
<1>3. MainInitializes'
  BY DEF MainInitializes, Phases, Quiet
<1>4. (ThereWhenUsed /\ AttemptLeft)'
  BY DEF ThereWhenUsed, UsesClient, AttemptLeft, Phases
<1>5. (SeenIsTrue /\ HealthIsTrue /\ MadeUpOnlyInRace)'
  BY DEF SeenIsTrue, HealthIsTrue, MadeUpOnlyInRace, Quiet, Health, Phases, Servers, Answers, Kinds
<1> QED
  BY <1>1, <1>2, <1>3, <1>4, <1>5

LEMMA DrainedKeepsIInv ==
  ASSUME IInv, Drained
  PROVE  IInv'
<1> USE RedisClientAssumption DEF IInv, TypeOK, Drained, Goto, globals, Threads
<1>1. TypeOK'
  BY DEF Answers, Continuations, Kinds, Health
<1>2. Phases'
  BY DEF Phases, Quiet
<1>3. MainInitializes'
  BY DEF MainInitializes, Phases, Quiet
<1>4. (ThereWhenUsed /\ AttemptLeft)'
  BY DEF ThereWhenUsed, UsesClient, AttemptLeft, Phases
<1>5. (SeenIsTrue /\ HealthIsTrue /\ MadeUpOnlyInRace)'
  BY DEF SeenIsTrue, HealthIsTrue, MadeUpOnlyInRace, Quiet, Health, Phases, Servers, Answers, Kinds
<1> QED
  BY <1>1, <1>2, <1>3, <1>4, <1>5

LEMMA CloseRedisKeepsIInv ==
  ASSUME IInv, CloseRedis
  PROVE  IInv'
<1> USE RedisClientAssumption DEF IInv, TypeOK, CloseRedis, Goto, globals, Threads
<1>1. TypeOK'
  BY DEF Answers, Continuations, Kinds, Health
<1>2. Phases'
  BY DEF Phases, Quiet
<1>3. MainInitializes'
  BY DEF MainInitializes, Phases, Quiet
<1>4. (ThereWhenUsed /\ AttemptLeft)'
  BY DEF ThereWhenUsed, UsesClient, AttemptLeft, Phases, Quiet
<1>5. (SeenIsTrue /\ HealthIsTrue /\ MadeUpOnlyInRace)'
  BY DEF SeenIsTrue, HealthIsTrue, MadeUpOnlyInRace, Quiet, Health, Phases, Servers, Answers, Kinds
<1> QED
  BY <1>1, <1>2, <1>3, <1>4, <1>5

LEMMA ServerChangesKeepsIInv ==
  ASSUME IInv, ServerChanges
  PROVE  IInv'
<1> USE RedisClientAssumption DEF IInv, TypeOK, ServerChanges, threads, Goto, globals, Threads
<1>1. TypeOK'
  BY DEF Answers, Continuations, Kinds, Health
<1>2. Phases'
  BY DEF Phases, Quiet
<1>3. MainInitializes'
  BY DEF MainInitializes, Phases, Quiet
<1>4. (ThereWhenUsed /\ AttemptLeft)'
  BY DEF ThereWhenUsed, UsesClient, AttemptLeft, Phases
<1>5. (SeenIsTrue /\ HealthIsTrue /\ MadeUpOnlyInRace)'
  BY DEF SeenIsTrue, HealthIsTrue, MadeUpOnlyInRace, Quiet, Health, Phases, Servers, Answers, Kinds
<1> QED
  BY <1>1, <1>2, <1>3, <1>4, <1>5

LEMMA StutterKeepsIInv ==
  ASSUME IInv, UNCHANGED vars
  PROVE  IInv'
<1> USE RedisClientAssumption DEF IInv, TypeOK, vars, threads, Goto, globals, Threads
<1>1. TypeOK'
  BY DEF Answers, Continuations, Kinds, Health
<1>2. Phases'
  BY DEF Phases, Quiet
<1>3. MainInitializes'
  BY DEF MainInitializes, Phases, Quiet
<1>4. (ThereWhenUsed /\ AttemptLeft)'
  BY DEF ThereWhenUsed, UsesClient, AttemptLeft, Phases
<1>5. (SeenIsTrue /\ HealthIsTrue /\ MadeUpOnlyInRace)'
  BY DEF SeenIsTrue, HealthIsTrue, MadeUpOnlyInRace, Quiet, Health, Phases, Servers, Answers, Kinds
<1> QED
  BY <1>1, <1>2, <1>3, <1>4, <1>5

-----------------------------------------------------------------------------
LEMMA NextKeepsIInv ==
  ASSUME IInv, [Next]_vars
  PROVE  IInv'
<1>1. ASSUME NEW t \in Threads, InitOrGet(t)
      PROVE  IInv'
  BY <1>1, InitKeepsType, InitKeepsPhases, InitKeepsFirst, InitKeepsThere, InitKeepsSeen DEF IInv
<1>2. ASSUME NEW t \in Requests, Handle(t)
      PROVE  IInv'
  BY <1>2, HandleKeepsType, HandleKeepsPhases, HandleKeepsFirst, HandleKeepsThere, HandleKeepsSeen DEF IInv
<1>3. ASSUME NEW t \in Requests, NEW k \in Kinds, Arrive(t, k)
      PROVE  IInv'
  BY <1>3, ArriveKeepsIInv
<1> QED
  BY <1>1, <1>2, <1>3, StartedKeepsIInv, StopKeepsIInv, DrainedKeepsIInv, CloseRedisKeepsIInv,
     ServerChangesKeepsIInv, StutterKeepsIInv DEF Next

LEMMA Invariance == Spec => []IInv
  BY InitIInv, NextKeepsIInv, PTL DEF Spec

\* The type invariant of the Redis client.
THEOREM TypeCorrect == Spec => []TypeOK
<1>1. IInv => TypeOK
  BY DEF IInv
<1> QED  BY <1>1, Invariance, PTL

\* Under the lifespan there is one client, from startup to shutdown, however often
\* Redis fails (redis_client.py:63).
THEOREM OneClientServes == Spec => []OneClient
<1>1. IInv => OneClient
  BY RedisClientAssumption DEF IInv, MainInitializes, Phases, OneClient, Quiet, TypeOK, Threads
<1> QED  BY <1>1, Invariance, PTL

\* No request goes on without a client or with one whose pool was disconnected, in
\* a race to initialize and in one with the shutdown too (redis_client.py:63, :111).
THEOREM ClientsAreThere == Spec => []NoRequestWithoutClient
<1>1. IInv => NoRequestWithoutClient
  BY DEF IInv, ThereWhenUsed, NoRequestWithoutClient, Threads
<1> QED  BY <1>1, Invariance, PTL

\* Health answers are true of some moment of their request (redis_client.py:223).
THEOREM HealthAnswersAreTrue == Spec => []HealthIsTrue
<1>1. IInv => HealthIsTrue
  BY DEF IInv
<1> QED  BY <1>1, Invariance, PTL

\* Metrics are made up only if Redis failed after it was found healthy
\* (redis_client.py:243).
THEOREM MetricsAreMadeUpInRaces == Spec => []MadeUpOnlyInRace
<1>1. IInv => MadeUpOnlyInRace
  BY DEF IInv
<1> QED  BY <1>1, Invariance, PTL
=============================================================================
