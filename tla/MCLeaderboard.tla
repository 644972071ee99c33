---------------------------- MODULE MCLeaderboard ----------------------------
(***************************************************************************)
(* Instances of the leaderboard for TLC.  Two or three players, three       *)
(* tenant attributes of one or two values each, and the requests that are   *)
(* in flight together; the traffic says what they may ask.                  *)
(***************************************************************************)
EXTENDS LeaderboardProperties, LeaderboardRefinement, TLC

CONSTANTS tenant1, tenant2, finance, retail, apac, small

MCTenants == {tenant1, tenant2}
MCIndustries == {finance, retail}
MCRegions == {apac}
MCSizes == {small}

\* Requests are interchangeable.
RequestSymmetry == Permutations(Requests)

SetTo(u, s) == [op |-> "score", user |-> u, score |-> s, tenant |-> None,
                industry |-> None, region |-> None, size |-> None]
TenantSets(u, s, t, x) == [op |-> "score", user |-> u, score |-> s, tenant |-> t,
                           industry |-> x, region |-> apac, size |-> small]
Bulk(scores) == [op |-> "bulk", scores |-> scores]
Add(u, n) == [op |-> "incr", user |-> u, by |-> n]
TopOf(n) == [op |-> "top", limit |-> n]
TopOfView(d, v, view, n) ==
  [op |-> "dimension", dimension |-> d, value |-> v, view |-> view, limit |-> n]
TopIn(d, v) == TopOfView(d, v, "absolute", 2)
RankOf(u) == [op |-> "rank", user |-> u]
Delete(u) == [op |-> "delete", user |-> u]
DeleteAll(S) == [op |-> "deletes", users |-> S]
Reset == [op |-> "reset"]
OptIn(t) == [op |-> "opt-in", tenant |-> t]
OptOut(t) == [op |-> "opt-out", tenant |-> t]

NoPlayers == EmptyZSet
OnePlayer == [EmptyZSet EXCEPT ![1] = 1]

\* Every operation, valid and invalid.
EveryOperation ==
  {SetTo(1, 2), SetTo(BadName, 2), SetTo(1, -1), SetTo(1, Inf),
   TenantSets(1, 3, tenant1, finance), TenantSets(2, 1, tenant2, retail),
   TenantSets(2, 1, tenant1, None), TenantSets(2, 1, Unknown, finance),
   Bulk(<<<<1, 1>>, <<2, 3>>, <<1, 2>>>>), Bulk(<<<<1, 1>>, <<BadName, 1>>>>), Bulk(<<>>),
   Add(1, 2), Add(2, 1), Add(2, 0), Add(1, Inf),
   TopOf(2), TopOf(0), TopOf(TopLimit + 1), TopIn("industry", finance), TopIn(Unknown, None),
   TopOfView("global", None, Unknown, 2),
   TopOfView("region", apac, "improvement", DimensionLimit + 1),
   RankOf(1), Delete(1), Delete(BadName),
   DeleteAll({1, 2}), DeleteAll({1, BadName}), DeleteAll({}),
   Reset, OptIn(tenant1), OptOut(tenant2)}

\* Player 1 is on the board and is only incremented, by amounts that can reach
\* the overflow and one that is refused; player 2 has a score that only tenants
\* set.
WritersTraffic ==
  {Add(1, n) : n \in {-1, 1, 2}}
    \cup {TenantSets(2, s, tenant1, x) : s \in {1, 2}, x \in MCIndustries}

\* Player 1 is on the board and stays; players 2 and 3 come and go.
AtomicTraffic ==
  {SetTo(1, 2), Add(1, 1), Add(1, 2), Add(1, 0), TenantSets(2, 1, tenant1, finance),
   Bulk(<<<<2, 3>>, <<3, 1>>, <<2, 2>>>>), Bulk(<<>>), Delete(2), Delete(BadName),
   DeleteAll({2, 3}), DeleteAll({}), TopOf(2), TopOf(5), RankOf(1), RankOf(2)}

\* The traffic of the documented claims.
CreateTraffic == {Add(1, 1), Add(1, 2)}
DimensionTraffic == {TenantSets(1, 2, tenant1, finance), TenantSets(2, 1, tenant1, retail),
                     TopIn("industry", finance)}
=============================================================================
