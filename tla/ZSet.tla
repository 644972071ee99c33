-------------------------------- MODULE ZSet --------------------------------
(***************************************************************************)
(* The Redis sorted set, as far as the leaderboard uses it.  Redis is not   *)
(* part of the repository: each operator is what src/ relies on from the    *)
(* command of that name.                                                    *)
(*                                                                          *)
(* A member is a natural number: its position in the byte order of the      *)
(* names, which is how Redis orders members of equal score.  A sorted set   *)
(* is a total function from the members to their scores, Absent for a       *)
(* member that is not in the set; the key does not exist when all are.      *)
(*                                                                          *)
(* A score is a double.  The model keeps its range: sums past MaxScore are  *)
(* the infinity Inf, and nothing is added to infinity but stays there.      *)
(***************************************************************************)
EXTENDS Integers, FiniteSets

CONSTANTS Members,   \* the names, by their position in the byte order
          Absent,    \* the score of a member that is not in the set
          MaxScore   \* the largest finite score

ASSUME ZSetAssumption ==
  /\ Members \subseteq Nat
  /\ IsFiniteSet(Members)
  /\ MaxScore \in Nat
  /\ Absent \notin Int

Inf == MaxScore + 1
Finite == 0..MaxScore
Score == 0..Inf

ZSets == [Members -> Score \cup {Absent}]

\* IEEE addition of non-negative scores.
Plus(a, b) == IF a + b > MaxScore THEN Inf ELSE a + b

EmptyZSet == [m \in Members |-> Absent]
Present(z) == {m \in Members : z[m] # Absent}
ZCard(z) == Cardinality(Present(z))

\* ZADD key score member ..., the new scores given as a function.
ZAdd(z, new) == [m \in Members |-> IF m \in DOMAIN new THEN new[m] ELSE z[m]]

\* ZINCRBY: a member that is not there counts as 0.
ZIncrBy(z, m, by) ==
  [z EXCEPT ![m] = IF @ = Absent THEN Plus(0, by) ELSE Plus(@, by)]

\* ZREM key member ...
ZRem(z, gone) == [m \in Members |-> IF m \in gone THEN Absent ELSE z[m]]

\* m comes before n in ZREVRANGE: by score, then by name, both descending.
Before(z, m, n) == z[m] > z[n] \/ (z[m] = z[n] /\ m > n)

\* ZREVRANK of a member that is in the set: 0 for the first.
ZRevRank(z, m) == Cardinality({n \in Present(z) : Before(z, n, m)})

\* ZREVRANGE key 0 limit-1 WITHSCORES: each member listed, with its place.
ZRevRange(z, limit) ==
  {[rank |-> ZRevRank(z, m) + 1, user |-> m, score |-> z[m]] :
     m \in {n \in Present(z) : ZRevRank(z, n) < limit}}
=============================================================================
