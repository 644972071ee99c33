------------------------------ MODULE Benchmark ------------------------------
(***************************************************************************)
(* The benchmark endpoints: a cohort with noise, a regional cohort against  *)
(* the global one, and a tenant's history.  No request changes the tables;  *)
(* a behaviour is one request after another on the tables it starts with.   *)
(*                                                                          *)
(* The code keeps the tables in BENCHMARK_DATA and BENCHMARK_HISTORY until  *)
(* it queries benchmark_aggregate and benchmark_historical, whose metrics   *)
(* may be NULL.  Scores are tenths of points.                               *)
(***************************************************************************)
EXTENDS Integers, FiniteSets, Sequences, Functions

CONSTANTS Aggregates,  \* what the table of cohorts may hold
          Histories,   \* what the table of snapshots may hold
          Cohorts,     \* <<industry, region, size_band>> of clients, each a text that is not empty
          Tenants,     \* tenants clients ask for
          Noises,      \* values of the Laplace noise
          Blank,       \* a text without visible characters
          Null         \* no metric

MIN_PEER_GROUP_SIZE == 10

Cohort(industry, region, size_band, peer_count, peer_25th, peer_median, peer_75th) ==
  [cohort |-> <<industry, region, size_band>>, peer_count |-> peer_count,
   peer_25th |-> peer_25th, peer_median |-> peer_median, peer_75th |-> peer_75th]

Global == <<"ALL", "GLOBAL", "ALL">>

BENCHMARK_DATA ==
  <<Cohort("Technology", "West", "Large", 20, 652, 764, 881),
    Cohort("Technology", "West", "Medium", 18, 613, 725, 847),
    Cohort("Technology", "North", "Large", 16, 625, 751, 873),
    Cohort("Finance", "West", "Large", 15, 601, 712, 835),
    Cohort("Finance", "North", "Medium", 19, 642, 736, 854),
    Cohort("Healthcare", "West", "Large", 17, 634, 748, 862),
    Cohort("Healthcare", "South", "Medium", 15, 587, 699, 815),
    Cohort("Finance", "West", "Small", 8, 550, 630, 720),
    Cohort("ALL", "GLOBAL", "ALL", 100, 600, 720, 840)>>

Snapshot(tenant_id, days_ago, p25, median, p75) ==
  [tenant_id |-> tenant_id, days_ago |-> days_ago, p25 |-> p25, median |-> median, p75 |-> p75]

BENCHMARK_HISTORY ==
  <<Snapshot("TENANT-001", 30, 602, 714, 821),
    Snapshot("TENANT-001", 60, 583, 695, 807),
    Snapshot("TENANT-001", 90, 558, 672, 789),
    Snapshot("TENANT-002", 30, 621, 732, 845),
    Snapshot("TENANT-002", 60, 604, 711, 827),
    Snapshot("TENANT-002", 90, 579, 688, 803)>>

Measured == Int \cup {Null}
CohortRows == [cohort : Seq(STRING), peer_count : Int,
               peer_25th : Measured, peer_median : Measured, peer_75th : Measured]

\* A tenant has one snapshot a day (database/006_create_benchmark_historical.sql:11).
OneSnapshotADay(table) ==
  \A j, k \in DOMAIN table :
    (table[j].tenant_id = table[k].tenant_id /\ table[j].days_ago = table[k].days_ago) => j = k

ASSUME BenchmarkAssumption ==
  /\ Noises \subseteq Int
  /\ Aggregates \subseteq Seq(CohortRows)
  /\ \A table \in Histories : /\ \A k \in DOMAIN table : table[k].days_ago \in Int
                             /\ OneSnapshotADay(table)

VARIABLES data, history,  \* the two tables
          asked_for,      \* the last request
          answer          \* and what it was answered

benchmarkVars == <<data, history, asked_for, answer>>

Statuses == {200, 403, 404, 422, 500}

BenchmarkTypeOK ==
  /\ data \in Aggregates /\ history \in Histories
  /\ asked_for \in [to : {"nothing"}] \cup [to : {"create", "compare"}, cohort : Cohorts]
                     \cup [to : {"trend"}, tenant_id : Tenants]
  /\ answer.status \in Statuses \cup {0}
  /\ (answer.status = 200 /\ asked_for.to = "create") =>
       {answer.peer_25th, answer.peer_median, answer.peer_75th} \subseteq 0..1000

BenchmarkInit ==
  /\ data \in Aggregates /\ history \in Histories
  /\ asked_for = [to |-> "nothing"]
  /\ answer = [status |-> 0]

-----------------------------------------------------------------------------
(* benchmark_repository.py                                                  *)

\* The first record of the cohort, if there is one.
get_benchmark_aggregate(cohort) ==
  LET matching == {k \in DOMAIN data : data[k].cohort = cohort}
  IN {data[k] : k \in {k \in matching : \A j \in matching : k <= j}}

get_global_benchmark == get_benchmark_aggregate(Global)

\* The records of the tenant, by their place in the table.
get_benchmark_history(tenant) == {k \in DOMAIN history : history[k].tenant_id = tenant}

Replies(request, body) ==
  /\ asked_for' = request
  /\ answer' = body
  /\ UNCHANGED <<data, history>>

Error(status) == [status |-> status]

\* Mutants: the result is not constrained to the scale of scores.
apply_laplace_noise_unbounded(value, noise) == value + noise

apply_laplace_noise(value, noise) ==
  LET noisy == value + noise
  IN IF noisy < 0 THEN 0 ELSE IF noisy > 1000 THEN 1000 ELSE noisy

-----------------------------------------------------------------------------
(* POST /benchmark                                                          *)

Quartiles(peer) == {peer.peer_25th, peer.peer_median, peer.peer_75th}

\* A cohort that is large enough may be refused with 500: a quartile is null, or
\* the uniform draw of generate_laplace_noise is exactly -0.5, whose log(0) raises.
CreateRefused(cohort) ==
  LET found == get_benchmark_aggregate(cohort)
      ends(status) == Replies([to |-> "create", cohort |-> cohort], Error(status))
  IN \/ found = {} /\ ends(404)
     \/ \E peer \in found :
          \/ peer.peer_count < MIN_PEER_GROUP_SIZE /\ ends(422)
          \/ peer.peer_count >= MIN_PEER_GROUP_SIZE /\ ends(500)

\* Each quartile has noise of its own, the percentile is the median without any.
create_benchmark(cohort) ==
  \E peer \in get_benchmark_aggregate(cohort), n25, n50, n75 \in Noises :
    /\ peer.peer_count >= MIN_PEER_GROUP_SIZE
    /\ Null \notin Quartiles(peer)
    /\ Replies([to |-> "create", cohort |-> cohort],
               [status |-> 200, tenant_id |-> peer.cohort, peer_count |-> peer.peer_count,
                percentile |-> peer.peer_median,
                peer_25th |-> apply_laplace_noise(peer.peer_25th, n25),
                peer_median |-> apply_laplace_noise(peer.peer_median, n50),
                peer_75th |-> apply_laplace_noise(peer.peer_75th, n75)])

-----------------------------------------------------------------------------
(* POST /benchmark/compare                                                  *)

\* The checks of a cohort, in order: there is one, it is large enough, it has a
\* median.
Unusable(found) ==
  IF found = {} THEN {404}
  ELSE UNION {IF peer.peer_count < MIN_PEER_GROUP_SIZE THEN {403}
              ELSE IF peer.peer_median = Null THEN {500} ELSE {} : peer \in found}

CompareRefused(cohort) ==
  LET regional == Unusable(get_benchmark_aggregate(cohort))
  IN \E status \in IF regional # {} THEN regional ELSE Unusable(get_global_benchmark) :
       Replies([to |-> "compare", cohort |-> cohort], Error(status))

Difference(cohort, regional, global) ==
  Replies([to |-> "compare", cohort |-> cohort],
          [status |-> 200,
           regional_peer_count |-> regional.peer_count, regional_median |-> regional.peer_median,
           global_peer_count |-> global.peer_count, global_median |-> global.peer_median,
           median_difference |-> regional.peer_median - global.peer_median])

\* Mutant: the peers of the global cohort are not counted.
compare_with_any_global(cohort) ==
  /\ Unusable(get_benchmark_aggregate(cohort)) = {}
  /\ \E regional \in get_benchmark_aggregate(cohort), global \in get_global_benchmark :
       global.peer_median # Null /\ Difference(cohort, regional, global)

compare_regional_benchmark(cohort) ==
  /\ Unusable(get_benchmark_aggregate(cohort)) = {}
  /\ Unusable(get_global_benchmark) = {}
  /\ \E regional \in get_benchmark_aggregate(cohort), global \in get_global_benchmark :
       Difference(cohort, regional, global)

-----------------------------------------------------------------------------
(* GET /benchmark/trend/{tenant_id}                                         *)

allowed_days == {30, 60, 90}

Trend(tenant) == {k \in get_benchmark_history(tenant) : history[k].days_ago \in allowed_days}
Days(snapshots) == {s.days_ago : s \in snapshots}
TrendDays(tenant) == Days({history[k] : k \in Trend(tenant)})
Unmeasured(tenant) ==
  \E k \in Trend(tenant) : Null \in {history[k].p25, history[k].median, history[k].p75}

\* float(None) of a missing metric raises before the days are counted.
TrendRefused(tenant) ==
  LET ends(status) == Replies([to |-> "trend", tenant_id |-> tenant], Error(status))
  IN \/ tenant = Blank /\ ends(422)
     \/ tenant # Blank /\ Unmeasured(tenant) /\ ends(500)
     \/ tenant # Blank /\ ~Unmeasured(tenant) /\ TrendDays(tenant) # allowed_days /\ ends(404)

\* trend.sort: by the days, and a stable sort.
Sorted(rows) ==
  {order \in Bijection(1..Cardinality(rows), rows) :
     \A j, k \in DOMAIN order :
       j < k => LET r == order[j]
                    s == order[k]
                IN \/ history[r].days_ago < history[s].days_ago
                   \/ history[r].days_ago = history[s].days_ago /\ r < s}

TrendAnswered(tenant) ==
  \E order \in Sorted(Trend(tenant)) :
    Replies([to |-> "trend", tenant_id |-> tenant],
            [status |-> 200, trend |-> [k \in DOMAIN order |-> history[order[k]]]])

\* Mutant: an answer with whatever days there are.
get_whatever_trend(tenant) ==
  tenant # Blank /\ ~Unmeasured(tenant) /\ TrendAnswered(tenant)

get_benchmark_trend(tenant) ==
  /\ tenant # Blank /\ ~Unmeasured(tenant)
  /\ TrendDays(tenant) = allowed_days
  /\ TrendAnswered(tenant)

-----------------------------------------------------------------------------
BenchmarkNext ==
  \/ \E cohort \in Cohorts : \/ CreateRefused(cohort) \/ create_benchmark(cohort)
                             \/ CompareRefused(cohort) \/ compare_regional_benchmark(cohort)
  \/ \E tenant \in Tenants : TrendRefused(tenant) \/ get_benchmark_trend(tenant)

BenchmarkSpec == BenchmarkInit /\ [][BenchmarkNext]_benchmarkVars

-----------------------------------------------------------------------------
(* Properties.                                                              *)

\* "PG-27 Minimum Peer Group Enforcement" (benchmark.py:196): the figures of an
\* answer are those of cohorts of ten peers or more, both the cohort asked for
\* and the global one it is compared with, whatever rows the table has.
SmallCohortsUndisclosed ==
  LET published(cohort, peers, median) ==
        /\ peers >= 10
        /\ \E k \in DOMAIN data : /\ data[k].cohort = cohort
                                 /\ data[k].peer_count = peers /\ data[k].peer_median = median
  IN answer.status = 200 =>
       /\ asked_for.to = "create" =>
            published(asked_for.cohort, answer.peer_count, answer.percentile)
       /\ asked_for.to = "compare" =>
            /\ published(asked_for.cohort, answer.regional_peer_count, answer.regional_median)
            /\ published(Global, answer.global_peer_count, answer.global_median)

\* A trend that is answered has each of the three days, from the newest to the
\* oldest, and nothing of another day or tenant, whatever else the table holds
\* and in whatever order.
TrendIsComplete ==
  (answer.status = 200 /\ asked_for.to = "trend") =>
    /\ Days(Range(answer.trend)) = {30, 60, 90}
    /\ \A j, k \in DOMAIN answer.trend :
         j < k => answer.trend[j].days_ago < answer.trend[k].days_ago
    /\ \A k \in DOMAIN answer.trend : answer.trend[k].tenant_id = asked_for.tenant_id
=============================================================================
