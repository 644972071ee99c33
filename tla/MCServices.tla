------------------------------ MODULE MCServices ------------------------------
(***************************************************************************)
(* The services beside the leaderboard and the awards, for TLC: profiles,   *)
(* the user store, the rate limiter and the benchmark endpoints.  They      *)
(* share no state and do not call each other, so that interleaving them     *)
(* shows nothing: each behaviour exercises one of them, and the others stay *)
(* as they are.                                                             *)
(***************************************************************************)
EXTENDS Profile, UserStore, RateLimiter, Benchmark

VARIABLE exercised  \* the service of the behaviour

serviceVars == <<profileVars, userVars, limiterVars, benchmarkVars, exercised>>

\* Of the initial states of a service that is not exercised, one will do.
Init ==
  /\ exercised \in {"profile", "users", "limiter", "benchmark"}
  /\ ProfileInit /\ UserStoreInit /\ LimiterInit /\ BenchmarkInit
  /\ exercised # "profile" => /\ user.current_streak = 0
                              /\ user.last_completion_time = NoTime
                              /\ user.verified_activity_time = NoTime
  /\ exercised # "benchmark" => data = BENCHMARK_DATA /\ history = BENCHMARK_HISTORY

Next ==
  /\ UNCHANGED exercised
  /\ \/ /\ exercised = "profile" /\ ProfileNext
        /\ UNCHANGED <<userVars, limiterVars, benchmarkVars>>
     \/ /\ exercised = "users" /\ UserStoreNext
        /\ UNCHANGED <<profileVars, limiterVars, benchmarkVars>>
     \/ /\ exercised = "limiter" /\ LimiterNext
        /\ UNCHANGED <<profileVars, userVars, benchmarkVars>>
     \/ /\ exercised = "benchmark" /\ BenchmarkNext
        /\ UNCHANGED <<profileVars, userVars, limiterVars>>

Spec == Init /\ [][Next]_serviceVars

\* A call of the user store is only under way when the store is exercised.
FairSpec == Spec /\ UserStoreFairness

\* The type invariants of the four services.
TypeOK == ProfileTypeOK /\ UserStoreTypeOK /\ LimiterTypeOK /\ BenchmarkTypeOK

-----------------------------------------------------------------------------
(* Instances.                                                               *)

\* Days of two ticks: completions at, between and beyond both ends of the
\* window, and before the last one.
MCTimes == 0..9

\* Two milestones and a hidden badge between them.
MCBadges == 2 :> "week" @@ 4 :> "month"
MCHidden == {<<"hidden", 3>>}

MCUsers == {<<"ada", "acme">>}

\* A first profile, and two that differ from it in some or in all columns.
ProfileOf(streak, last, verified) ==
  "current_streak" :> streak @@ "last_completion_time" :> last @@ "verified_activity_time" :> verified
MCProfiles == {ProfileOf(0, 0, 0), ProfileOf(1, 1, 0), ProfileOf(1, 1, 1)}

\* The table of the code, and tables the database may hold: without a global
\* cohort, with a small one, and with missing metrics.
MCAggregates ==
  {BENCHMARK_DATA,
   <<Cohort("Finance", "West", "Large", 10, 601, 712, 835)>>,
   <<Cohort("Finance", "West", "Large", 10, 601, 712, 835), Cohort("ALL", "GLOBAL", "ALL", 9, 600, 720, 840)>>,
   <<Cohort("Finance", "West", "Large", 9, 601, 712, 835), Cohort("ALL", "GLOBAL", "ALL", 10, 600, Null, 840)>>,
   <<Cohort("Finance", "West", "Large", 11, Null, 712, 835), Cohort("ALL", "GLOBAL", "ALL", 10, 600, Null, 840)>>}
MCCohorts ==
  {<<"Finance", "West", "Large">>, <<"Finance", "West", "Small">>, Global, <<"Finance", "Moon", "Large">>}

\* The history of the code, and what the database may hold: out of order and
\* with other days, incomplete, with missing metrics.
MCHistories ==
  {BENCHMARK_HISTORY,
   <<Snapshot("TENANT-001", 90, 1, 2, 3), Snapshot("TENANT-002", 60, 1, 2, 3),
     Snapshot("TENANT-001", 45, Null, 2, 3), Snapshot("TENANT-001", 30, 1, 2, 3),
     Snapshot("TENANT-001", 60, 1, 2, 3)>>,
   <<Snapshot("TENANT-001", 30, 1, Null, 3), Snapshot("TENANT-002", 90, 1, 2, 3)>>}
MCTenants == {"TENANT-001", "TENANT-002", "TENANT-003", Blank}

\* Noise that stays within the scale and noise that leaves it at either end.
MCNoises == {-2000, -7, 7, 2000}
=============================================================================
