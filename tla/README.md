# A verification model of the CyBreach leaderboard and achievement service

TLA+ modules, TLC configurations and TLAPS proofs for the Python service in this repository:
a FastAPI application that keeps rankings in Redis sorted sets and achievements in PostgreSQL.
Paths below are relative to `src/`.

## 1. The system

| Component | State | Operations | Interacts with |
|---|---|---|---|
| Leaderboard service and API (`app/services/leaderboard_service.py`, `app/api/leaderboard.py`, `app/models/schemas.py`, `app/tenant_contract.py`) | Redis: the global sorted set, one sorted set for each industry, region and size, the members of each tenant | set score (plain and for a tenant), bulk set, increment, top, dimension ranking, rank, delete one or many, reset, opt-in, opt-out | Redis only; requests meet in Redis |
| Improvement view (`app/services/improvement_service.py`) | Redis: four improvement sorted sets | store, list | Redis |
| Redis client and lifespan (`app/db/redis_client.py`, `lifespan` in `app/main.py`) | module globals `_pool`, `_client` | initialize, get, close, health, metrics | every thread of the process |
| Awards (`app/award_repository.py`, `check_achievement` in `app/main.py`) | table `badge_award` | check and award, list | PostgreSQL; other workers |
| Streaks (`app/streak.py`, `app/user_repository.py`, the streak endpoints in `app/main.py`) | table `user_profile`; a profile in memory | verify a login, save, read | PostgreSQL; other calls |
| Badges (`app/badges.py`) | the badges of a profile in memory | milestone badge, hidden badge | the streak of the same profile |
| Rate limiter (`app/core/rate_limiter.py`) | one Redis counter for each client and minute | check | Redis and the clock; no route uses it |
| Benchmark (`app/api/benchmark.py`, `benchmark_repository.py`) | none (seeded tables) | create, compare, trend | reads its tables only |
| Analytics, benchmark tool, configuration, logging | none | pure functions and start-up | - |

The leaderboard handlers are plain functions, run by FastAPI on a pool of threads; the award and
streak handlers are coroutines. Nothing in the process locks anything: requests are ordered by
Redis, which executes one command or MULTI block at a time, and by PostgreSQL's row locks and
unique constraints.

What is hard about it:

* **Interleaving.** An increment reads, decides and writes in separate commands; a listing counts
  and lists in two; a store of an improvement writes in four. An award is looked for twice and then
  inserted. The client is initialized by an unlocked check of a global.
* **Timeouts and repetitions.** The pool has `retry_on_timeout`: a command without an answer is
  sent again although the first copy may have been executed, or may be executed later, after newer
  commands.
* **Broken connections.** An award's COMMIT can be in doubt when its connection breaks.
* **Partial failure.** Some writes are one command or one MULTI block, others are not. An UPDATE of
  a profile sets only the columns that differ from the row its session has read.
* **Clocks.** The rate limiter reads the clock, counts and sets an expiry in three steps; a streak
  is advanced with the times its callers report.
* **Waiting.** Requests wait for Redis, for another transaction's row, or for the client's first
  PING, and must be answered all the same.

`PROJECT.json` lists each of these as a hazard, at its line, with the properties that cover it.

## 2. The modules

### Leaderboard

| Module | What it is |
|---|---|
| `ZSet` | the Redis sorted set, as far as the code uses it (external: modelled from its use) |
| `LeaderboardRequests` | the shapes of requests, and the validation done before the first command |
| `Leaderboard` | the service: each request is a state machine over the shared sorted sets |
| `LeaderboardProperties` | what it must do, and what its documentation claims |
| `AtomicBoard`, `LeaderboardRefinement` | one board with atomic operations, and the mapping onto it |
| `MCLeaderboard` | instances for TLC |
| `ZSetLemmas`, `LeaderboardProofs` | lemmas about the sorted set, shared with the improvement boards; theorems |
| `IncrementProofs` | a theory of finite sums, and the theorems about increments that rest on it |

`board`, `dims` and `members` are the Redis keys. `pc[i]` is the command request *i* waits for,
named as `_handle_redis_error` names it, or its outcome: `ok`, `invalid` (400 or 422), `notfound`
(404), `timeout` (504), `unavailable` (503), `error` (500). There is one action for each command
that is executed and answered: `SetScore`, `SetTenantScore`, `SetScoresBulk`, `DeleteUser`,
`DeleteUsers`, `ResetLeaderboard` and `GetRank` for the operations of one command or block,
`ReadScore` then `CreateScore` or `AddScore` for `increment_score`, `CountPlayers` then
`ListPlayers` for `get_top_players`. `Accept`, `Refuse`, `NothingToDo` and `OptInOrOut` are the ways
a request can begin; `Valid` has the limits and views of the routes. `Resend`, `GiveUp` and `LoseConnection` are what can happen instead of an
answer: the command joins `limbo`, from where `ExecuteLate` may execute it at any later time, or
never. `ran[i]` is a history variable: the attempts of request *i*'s write that took effect.

A member is a number, its place in Redis' byte order, because that order breaks ties between equal
scores. Scores keep their range: a sum past `MaxScore` is `Inf`, as for doubles, and `Inf` stays.
Request texts are abstract: a name is a player or `BadName`, a segment is a segment or `Unknown`.

### Improvement

`Improvement` (proofs: `ImprovementProofs`; instance: `MCImprovement`) models `store_improvement` one
ZADD at a time: `at[i]` is the place of the board
being written, in the order of the code, and a segment is validated when its key is built, after
the earlier ZADDs. `ListBoard` is `get_improvement`. The connection is that of the leaderboard,
except that errors are not translated. A listing is asked for by the route, which refuses limits
outside 1 to 1000, or of the service, which lists one tenant for a limit of 0 (`Length`). `rivals[i]`
is a history variable: the stores of the tenant that could still write when store *i* began, copies on
their way included, and those that have begun since.

### Redis client

`RedisClient` (proofs: `RedisClientProofs`) has the globals `pool` and `client`, and a program counter for the thread of the
lifespan and for each request. Every access to a global is a step, because no lock guards them.
`server` is how Redis answers at the moment, and changes at any time. The process runs with the
lifespan, as under uvicorn, or without it, as when the package is used as a library or by a test
client; `Init` chooses. A pool is named after the thread that built it.

### Awards

`Awards` models `check_achievement` await by await: `FindAward` (the handler's look-up),
`FindAgain` (that of `save_award`), `Insert` and `Commit` (the flush and the COMMIT of
`session.commit()`), `CommitAnswered`, `Refresh`, and `Recover` (the `except` block). `txn[i]` is
PostgreSQL's side of the transaction: a connection may break at every await (`BreakInTry`,
`BreakOutside`), and a COMMIT that was sent may still be executed (`ServerCommits`) or not
(`ServerAborts`). `AwardRegister` is the abstract specification, a write-once register for each
badge and tenant, `AwardsProofs` has the theorems and `MCAwards` the instance for TLC.

### Profiles, user store, rate limiter, benchmark

These four share no state and do not call each other. Each has a module of its own; `MCServices`
puts them side by side for TLC, and each of its behaviours exercises one of them, because
interleaving them would only multiply states.

* `Profile` is a `UserProfile` in memory: `Complete(now)` is `update_streak`, `Award` is
  `award_milestone_badge` and `Reveal` is `reveal_hidden_badge`, called in any order and with any
  times, because times come from request bodies. `start` and `peak` are history variables.
* `UserStore` is `find_user` and `save_user` and the two streak endpoints, await by await:
  `FindForSave` is the SELECT, `FlushUpdate`, `FlushNothing` and `FlushInsert` are what
  `session.commit()` flushes, then come the COMMIT (`ServerCommits`, `ServerAborts`,
  `CommitAnswered`) and `Refresh`. `Written` is the row an UPDATE leaves: the columns the session
  found changed, on top of whatever the row is by then. `VerifyStreak` ends with 500, as the code
  does; the saves are those of other callers of `save_user`. `overlapped` is a history variable.
* `RateLimiter` is `check_rate_limit`: `Arrive` reads the clock, `IncrFirst`, `IncrAdmit` and
  `IncrRefuse` are the INCR and what the code makes of its answer, `Expire` the EXPIRE, and
  `CutBefore`, `CutAfterIncr` and `CutAfterExpire` a process that stops or a connection that breaks
  around a command. `Tick` advances the clock and lets Redis drop keys whose time is over.
  `asked`, `admitted` and `cut` are history variables.
* `Benchmark` is the three endpoints as functions of the tables: every check in the order of the
  code, every quartile with noise of its own. The tables are those of the code and others that the
  database they stand for may hold, with missing metrics and in other orders. A look-up is the set of
  the first matching record, empty where the code returns `None`; the records of a tenant are their
  places in the table, and `Sorted` is the stable sort of `trend.sort`.

The proofs are in `UserProofs` (profiles and the user store) and `ServicesProofs` (the limiter, the
benchmark, and the four together).

## 3. What is checked

| Run | Instance | Question and result |
|---|---|---|
| `lb_all` | 2 requests out of 31, 2 players, one of them on the board, 1 repetition, faults | Do answers and effects agree for every operation? `AcknowledgedWriteTookEffect`, `RefusedRequestNeverWrites`, `OnceUnlessRepeated`, `TwoLooksDifferByWrites`, `DimensionMembers`, `InfinityOnlyAdded` hold, and every request is answered. |
| `lb_writers` | 3 writers of 2 players, 1 repetition, faults | Do racing and late writers keep the boards together, and lose no increment, also when some are refused and when sums overflow? `TenantMirror` and `AcknowledgedIncrementsCount` hold. |
| `lb_atomic` | 3 requests, 3 players, no faults | Does the service look like one board with atomic operations? It does: `ImplementsAtomicBoard`. |
| `improvement` | 2 requests, 3 tenants, 1 repetition, faults | What do partial stores preserve? `SegmentsWithinGlobal`, `OnlyRivalsOverwrite`, `ListingIsRanked` hold, and every request ends. |
| `redis_client` | the lifespan and 2 request threads, any behaviour of Redis | Is there one client, do health and metrics tell the truth, does the application start? `OneClient`, `NoRequestWithoutClient`, `HealthIsTrue`, `MadeUpOnlyInRace`, `Starts`, `EveryRequestAnswered` hold. |
| `awards` | 3 requests, 2 badges, faults | Is there one award, truthfully reported? `OneAwardPerKey`, `AnswerIsCommitted`, `AnswersAgree`, `ImplementsRegister` hold, and every request is answered. |
| `services` | one of four services in each behaviour, see the bounds | Do streaks keep the pace of days (`StreakPaced`) and badges follow streaks (`BadgesEarned`)? Are profiles inserted once (`OneInsertPerUser`) and whole unless saves meet (`LoneSavesAreWhole`), and does every call end (`EveryCallEnds`)? Does a minute let through no more than the limit (`MinuteBound`), is nobody refused for others or for earlier minutes (`RefusalIsEarned`), and do counters leak only by a cut (`LeakOnlyByCut`)? Are small cohorts never disclosed (`SmallCohortsUndisclosed`) and trends complete (`TrendIsComplete`)? All hold. |

Five runs state what the documentation says and find that the code does something else:

| Run | Claim | What happens |
|---|---|---|
| `lb_v_create` | "Atomically increment a player's score using ZINCRBY." (`leaderboard_service.py:236`) | Two first increments of a player both read no score and both ZADD: one is lost. |
| `lb_v_twice` | "Increment a player's score atomically." (`api/leaderboard.py:92`) | A ZINCRBY that timed out is repeated, and both copies are executed. |
| `lb_v_dimension` | "Absolute rankings by category dimension" (`README.md:266`) | The ranking of an industry is the global one. |
| `aw_v_evidence` | "persists audit proof via structured evidence_ref tokens" (`README.md:39`) | A request that loses the race is answered "awarded" and its evidence is dropped. |
| `us_v_verify` | "Evaluate activity timestamps and update consecutive streaks" (`README.md:276`) | Every verification with parsable timestamps ends with 500 (`main.py:324`) and stores nothing. |

What the runs delimit is as telling as that they pass. `AcknowledgedIncrementsCount` is about
players who are on the board and stay there; `lb_v_create` shows why it must be. It says that the
gain is at least what was acknowledged, unless the sum has overflowed to infinity, and at most what
was asked for, once for each time it was sent. The abstract board
of `lb_atomic` gives a listing two looks at the board, because the total of an answer is counted at
one moment and the ranking listed at a later one (`leaderboard_service.py:299`), and its traffic
increments only a player who stays. How far the two looks may be apart is `TwoLooksDifferByWrites`:
by players whom other requests have added or removed, and by nothing else. `OnlyRivalsOverwrite`
says of stores that meet that each board shows one of those that met, and that nothing of an earlier
store comes back; it does not say that the boards agree, which they need not.
`OneClient` is about processes with the lifespan: without it, requests that race to initialize may
build several pools, and `NoRequestWithoutClient` says that whatever they get is a client whose pool
is open. `InfinityOnlyAdded` says that infinity comes onto a board only by the sum of a ZINCRBY,
never as a score that a request sets; the increment itself may be infinite. `LoneSavesAreWhole` needs saves of a user that do not meet: two that do can leave a
row with columns of both, since each updates only what it found changed. `MinuteBound` is about a
calendar minute and the requests that are counted within it: around the turn of a minute sixty
seconds let twice the limit through, and a request that reads the clock before the turn and is counted
after it is counted on the old key.

**Bounds.** Two requests reach every pair of operations and three every race of two writers with a
third operation; a late copy counts as a further writer, so that `lb_writers` has up to six writes
in flight. Two players are enough for ties and for writes that must leave others alone; three for
a ranking whose tail changes. One repetition is what redis-py does for `retry_on_timeout`. Scores
go to 4 in `lb_all` and to 6 in `lb_writers`, so that sums of a few increments overflow, and to 20
where they must not. Two badges, of one tenant,
let requests race for a key and not race; a key is opaque, so that a second tenant would add
nothing. Three attempts of `init_redis` are the code's own number. Symmetry of the requests is used
in `lb_writers`, where only invariants are checked.

In `services` a day is two ticks and times are 0 to 9, so that completions fall before, at, between
and after both ends of the window and runs of four fit; milestones are 2 and 4 with a hidden badge at
3, so that one is passed and one missed between two calls. Three calls for one user and three profiles
(one that differs from the first in two columns, one in all three) give two racing first saves with
a third call after or between them; users do not meet, the key of the row is opaque. The limiter has
two clients, two requests at a time, a limit of 2 and four requests in all, so that a client can
exceed its limit in one minute or spread over two minutes of two ticks each, with an expiry of any
age at the turn. The benchmark has the tables of the code and four or two more, with cohorts of 8 to
11 peers around the minimum of 10, missing metrics, missing days and rows out of order; noise is 0.7
points either way, or enough to leave the scale at either end.

**Fairness.** The leaderboard and improvement specifications assume that a request that waits for a
command is answered or fails, which the socket timeout of the pool (`redis_client.py:38`) enforces;
nothing is assumed of clients or of late copies. `RedisClient` assumes the same of its PINGs and
INFOs, and that threads run. `Awards` assumes that the event loop resumes a coroutine whose await is
over, and that PostgreSQL settles every transaction: it commits what it was asked to, or rolls back
one whose client is gone. Connections are never assumed to break. `UserStore` assumes the same of its coroutines and
transactions as `Awards`. The other services have safety properties only and need no fairness.

**Deadlock** is not checked: the modelled processes stop when every request is answered and no copy
is left.

Each property has a mutant, an operator beside the one it replaces, marked as such: a plausible
mistake in that code, under which TLC finds the property violated.

## 4. What is proved

The theorems hold for every value of the constants: any players, segments, traffic, number of
requests and of repetitions, days, limits and tables, under the assumptions named `...Assumption` in
the modules. These say that the special values are distinct from the others, that numbers are numbers,
that traffic consists of requests, and, where a maximum or a rank is taken, that there are finitely
many members or milestones. TLC evaluates each of them.

`LeaderboardProofs`: `TypeCorrect`, `AcknowledgedWrites`, `RefusedRequests`,
`NoTimeoutNoRepeat`, `DimensionsHoldMembers`, `TenantsMirrored`, `InfinityIsAdded`,
`LooksDifferByWrites` and `LeaderboardImplementsAtomicBoard`. Most of these
properties speak of requests that are answered and are not inductive. The invariant `IInv` adds what
is known while a request still waits: it waits for a command of its own operation (`Control`), its
copies in `limbo` are of that one command (`CopiesFit`), and (`Attempts`) a request that waits for a
read has written nothing and left no copy, while the attempts of a waiting write, executed or under
way, are numbered below the current one. `TenantsMirrored`
follows from two lemmas on what a step does to the boards (`StepOnBoards`) and on which players a
command writes (`WriteTouches`): if tenants alone set a player's score then every command that
touches the player, current or late, is a pipeline of `set_tenant_score`, which sets four boards to
one value. `InfinityIsAdded` follows from what each command writes (`WriteStores`): a finite value, or
a sum, whose attempt is on record (`WritesAreRecorded`) and stays there (`AttemptsStay`).
`LooksDifferByWrites` keeps, from the ZCARD of a listing on, the set of players that were counted
(`Looks`): whoever has come to the board since has been added by a write on record, and whoever has
left it was removed by one (`BoardChangesAreWritten`), so that the listing of the later board, which is
the whole of it unless it is full (`ListingComplete` in `ZSetLemmas`), differs by those.

`LeaderboardImplementsAtomicBoard` is the refinement, for any players, segments and number of
requests, under three hypotheses on the constants: nothing fails (`~Faults`), the traffic asks neither
for segments nor for consent (`WholeBoardTraffic`: those routes do not keep what they promise, and the
abstract board has no such step), and who is incremented is on the board from the start and is never
removed (`IncrementedStay`). The last is what the code needs: `increment_score` of an absent player
reads and creates in two commands, and the run `lb_v_create` shows that this is not one step. The
invariant `Smooth` carries the hypotheses to every state: no copies, no creation, and no answer before
its time. Then each command is its operation's one step (`SetIsPut`, `AddIsIncrement`,
`ClearIsRemoveAll` and so on), the read before an increment is a stutter (`ReadIsUnseen`), and a
listing is `Count` followed by `Top`: that what ZREVRANGE returns is a ranking of the whole board
(`ListingIsRanking`) rests on ranks without gaps (`RanksHaveNoGaps` in `ZSetLemmas`).

`IncrementProofs`: `AccountsAreExact`, `AcknowledgedIncrements`, `AddedOnceUnlessRepeated`. The sum of the
community modules is a recursive function that takes the elements of a set in some order, and what
is computed by recursion would want induction. Instead `SumIsCount` shows that a sum of natural
numbers is a number of units, pairs of an element and a number up to its amount: counting units
satisfies the recursion (`UnitsSum`), and a smallest subset on which two solutions differ cannot
exist (`OneSum`, from the well-foundedness of the subsets of a finite set). What the proofs need of
sums (`SumMonotone`, `SumSame`, `SumAdds`) then follows from facts about cardinalities. The invariant
`Accounts` says that the score of a player who is on the board and only incremented is *exactly* what
the player had plus, for each of the player's increments, its amount times the number of its attempts
that took effect, up to the overflow. A step is an arrival, which adds nothing, a step without a
write, or the first execution of one attempt (`StepEffects`), which adds its amount to the score and
to the account (`ExecutionKeepsAccount`). Beside it the invariant has that nobody is about to create
the player (`NotCreated`): only a ZSCORE that finds nobody leads to a creation, and the player is there;
without that a late ZADD would overwrite the score, which is what `lb_v_create` shows of players who
are not there. `AcknowledgedIncrements` follows with `AcknowledgedWriteTookEffect`, which bounds the
number of attempts from below, and with the type of `ran` and `CopiesNotRun`, which bound it from
above. `AddedOnceUnlessRepeated` is the other side of `lb_v_twice`: however often the client may repeat,
an acknowledged increment whose command it did not repeat has been added exactly once, and no copy is
left that could add it again.

`AwardsProofs`: `TypeCorrect`, `AwardedOnce`, `AnswersAreTrue`, `AnswersAreOne` and
`AwardsImplementRegister`. The invariant
adds that only requests that were sent have a transaction (`TxnOfAsked`), and that an INSERT that is
open or committing is the only one of its key and has no committed row of that key beside it
(`OpenInsertAlone`). `AwardedOnce` is the case that matters: the unique constraint acts when
a row is inserted, the row appears later, and what excludes a second one in between is that an
INSERT waits for uncommitted rows. `AwardsImplementRegister` is the refinement for any badges,
tenants and requests: the server's commit of an INSERT is `Record` on the register
(`CommitRecords`), an answer is `Tell` of the row that is there (`GrantTells`) or `GiveUp`
(`FailGivesUp`), and every other step leaves the register as it is (`MoveUnseen`).

`ImprovementProofs`: `TypeCorrect`, `SegmentsStayWithin`, `RivalsOverwrite`, `ListingsAreRanked`. A copy in `limbo` is
of a store that has come at least as far (`CopiesOfStores`), and a store past its first board has its
tenant on the global one (`GlobalFirst`): so whatever a store or its copy writes to a segment, however
late, is of a tenant that is on the global board. Of two stores of
a tenant that may both still write each is a rival of the other (`RivalsKnown`), so that a write to a
board that a store has passed is its own or a rival's, which has come as far as that board (`Shows`). `ListingsAreRanked` needs
no stronger invariant but a count, of `ZSetLemmas`: a rank is the number of members ahead, no two members have the same
(`RanksOrder`), so the ranks of n members are the numbers below n (`RanksHaveNoGaps`).

`RedisClientProofs`: `TypeCorrect`, `OneClientServes`, `ClientsAreThere`, `HealthAnswersAreTrue`,
`MetricsAreMadeUpInRaces`. The invariant says who can be where in each phase of the application
(`Phases`); that under the lifespan Main alone initializes, and that its client stays published from
before its first PING until it is closed (`MainInitializes`), which is why a request never races to
build a second pool; that a client is used only while its pool is open, also without the lifespan
(`ThereWhenUsed`);
and that a request has seen Redis as it is and as its answer says (`SeenIsTrue`).

`UserProofs`, profiles: `ProfileTypeCorrect`, `StreaksArePaced`, `BadgesAreEarned`. The invariant adds that
the longest streak is not shorter than the current one (`PeakIsLongest`). `MaxOfFinite`, that the
greatest of finitely many milestones is one of them, is proved from the well-foundedness of the
subsets of a finite set, since induction is out of reach.

`UserProofs`, user store: `UserStoreTypeCorrect`, `InsertedOnce`, `LoneSavesWhole`. A row is locked by one
transaction at most (`OneOpen`), an INSERT that is open has no committed row beside it (`RowsStay`),
and a save that meets no other has read what is in the table until it writes
(`LoneSaveIsCurrent`), so that the columns it does not set are already those it was asked for.

`ServicesProofs`, rate limiter: `LimiterTypeCorrect`, `MinutesAreBounded`, `RefusalsAreEarned`, `LeaksOnlyByCuts`. A
key of the current minute has no expiry or one that does not come before the turn
(`CurrentKeysStay`), so that its counter has all who were let through (`CounterHasAll`); requests
counted and requests on their way to be are among those asked (`CountedOnce`), so that a count above the
limit is of requests for that very key.

`ServicesProofs`, benchmark: `BenchmarkTypeCorrect`, `SmallCohortsAreUndisclosed`, `TrendsAreComplete`.
The tables never change, so each property is inductive with the type invariant alone, and the work is
in the answers: the figures of an answer are those of a row that passed the checks (`FoundIsRow`,
`UsableRow`), whatever other rows its cohort has, and a trend is a bijection from its places to the
rows of the tenant (`TrendAnswerIsComplete`), so that no day is missing. That the days of a trend are
strictly ascending rests on the unique constraint of the snapshots
(`database/006_create_benchmark_historical.sql:11`), which is part of `BenchmarkAssumption`; cohorts have no
such constraint, and none is assumed.

`ServicesProofs`, composition: `ServicesAreSeparate`, `ServicesTypeCorrect`, `ServicesCorrect`. Every step
of the specification that TLC runs is a step of each of the four services or leaves it alone
(`StepOfEach`), so that it implements the specification of each, and the theorems about them hold of
the four side by side.

Only model-checked: liveness (six properties), which needs fairness and ENABLED and is beyond the
prover. That the runs with a violation find one is by its nature a matter for TLC.

## 5. What is not modelled, and known gaps

* The infinity that finite increments can sum to (`leaderboard_service.py:262`) is in the model: that
  only sums put it on a board holds, that it never gets there does not.
* A delete that removed its player and timed out is answered 404 by its repetition
  (`leaderboard_service.py:398`); `OnceUnlessRepeated` says that this needs a repetition.
* Opt-in and opt-out call methods that do not exist (`api/leaderboard.py:174`, `:196`): 500, always.
* Redis evicts keys under `allkeys-lru` (`database/redis.conf`) and may lose a second of writes when
  it restarts: the model's Redis keeps what it has executed.
* The size of the connection pool: a request that gets no connection is answered as one whose
  connection fails.
* Saves of one profile that meet: the later UPDATE sets only the columns that differ from what its
  session read (SQLAlchemy's unit of work), so the row can end with columns of both. No document
  promises otherwise, and the model states what holds of saves that do not meet.
* `verify_streak` never reaches `save_user`: `app.models` resolves to the package whose `UserProfile`
  has no `tenant_id` (`us_v_verify`). `save_user` is therefore modelled as it would be called.
* `README.md:40` speaks of a sliding-window limit per tenant. The code has a fixed calendar minute per
  client address, no route depends on it, and there is no fall-back when Redis is away: the request
  fails. The limiter's clock is assumed common to the hosts and Redis.
* Of a cohort's answer the percentile is the median without its noise, and the quartiles, each with
  noise of its own, need not be in order; nothing promises that they are. Of the distribution of the
  noise the model keeps that a draw of exactly -0.5 raises (`benchmark.py:117-125`): 500.
* `find_awards`, which lists a tenant's badges, and the analytics endpoint read and compute only; the
  migrations run once by hand; the leaderboard snapshot table is read by nothing but
  `database/verify_leaderboard.py`, a script that runs against a live database;
  `app/utils/benchmark.py` times the service against fakeredis; configuration reads environment
  variables. None has behaviour a model would add to.
* An award or save whose connection breaks after the server has executed its INSERT but before the
  answer arrives leaves a transaction open. In the model that is the INSERT followed by a break before
  COMMIT: the same row locked, the same client gone, until `ServerAborts`. It has no action of its own.
* An answer with an infinite score cannot be rendered as JSON, so that the route ends with 500: the
  outcome in the model is that of the service, whose commands have been executed by then.
* Log messages, response wording and CORS are left out.

## 6. Plan

1. *(done)* `ZSet`, `LeaderboardRequests`, `Leaderboard`, their properties, refinement and proofs.
2. *(done)* `Awards`, `AwardRegister`, proofs.
3. *(done)* `Improvement`, `RedisClient`, and their proofs.
4. *(done)* `Profile` (streaks and badges), `UserStore`, and their proofs.
5. *(done)* `RateLimiter` and its proofs.
6. *(done)* `Benchmark` and its proofs.
7. *(done)* `AwardsImplementRegister`.
8. *(done)* `LeaderboardImplementsAtomicBoard`.
9. *(done)* `IncrementProofs`: sums, and `AcknowledgedIncrementsCount`.
10. *(done)* The composition of the services (`ServicesProofs`).
