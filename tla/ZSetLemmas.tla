----------------------------- MODULE ZSetLemmas -----------------------------
(***************************************************************************)
(* What the operators of ZSet return: the lemmas the proofs about the       *)
(* leaderboard and the improvement boards rest on.                          *)
(***************************************************************************)
EXTENDS ZSet, FiniteSetTheorems, WellFoundedInduction, TLAPS

LEMMA ScoreType == /\ Finite \subseteq Score
                   /\ Score \subseteq Nat
                   /\ Absent \notin Score
  BY ZSetAssumption DEF Finite, Score, Inf

LEMMA EmptyZSetType == EmptyZSet \in ZSets
  BY DEF EmptyZSet, ZSets

LEMMA ZAddType ==
  ASSUME NEW z \in ZSets, NEW new, \A m \in DOMAIN new : new[m] \in Score
  PROVE  ZAdd(z, new) \in ZSets
  BY DEF ZAdd, ZSets

LEMMA ZRemType ==
  ASSUME NEW z \in ZSets, NEW gone
  PROVE  ZRem(z, gone) \in ZSets
  BY DEF ZRem, ZSets

LEMMA PlusType ==
  ASSUME NEW a \in Score, NEW b \in Score
  PROVE  Plus(a, b) \in Score
  BY ZSetAssumption DEF Plus, Score, Inf

LEMMA ZIncrByType ==
  ASSUME NEW z \in ZSets, NEW m \in Members, NEW by \in Score
  PROVE  /\ ZIncrBy(z, m, by) \in ZSets
         /\ ZIncrBy(z, m, by)[m] \in Score
<1> DEFINE sum == IF z[m] = Absent THEN Plus(0, by) ELSE Plus(z[m], by)
<1>1. z[m] \in Score \cup {Absent} /\ 0 \in Score
  BY ZSetAssumption DEF ZSets, Score, Inf
<1>2. sum \in Score
  BY <1>1, PlusType
<1>3. ZIncrBy(z, m, by) = [z EXCEPT ![m] = sum]
  BY DEF ZIncrBy
<1> QED
  BY <1>2, <1>3 DEF ZSets

LEMMA PresentType ==
  ASSUME NEW z \in ZSets
  PROVE  /\ Present(z) \subseteq Members
         /\ \A m \in Present(z) : z[m] \in Score
  BY DEF Present, ZSets

\* Counting players gives a natural number.
LEMMA CountType ==
  ASSUME NEW S \in SUBSET Members
  PROVE  Cardinality(S) \in Nat
  BY ZSetAssumption, FS_Subset, FS_CardinalityType

LEMMA ZRevRankType ==
  ASSUME NEW z \in ZSets, NEW m
  PROVE  ZRevRank(z, m) \in Nat
  BY PresentType, CountType DEF ZRevRank

LEMMA ZRevRangeType ==
  ASSUME NEW z \in ZSets, NEW limit
  PROVE  ZRevRange(z, limit) \subseteq [rank : Nat \ {0}, user : Members, score : Score]
<1> SUFFICES ASSUME NEW m \in Present(z)
             PROVE  [rank |-> ZRevRank(z, m) + 1, user |-> m, score |-> z[m]]
                      \in [rank : Nat \ {0}, user : Members, score : Score]
  BY DEF ZRevRange
<1>1. ZRevRank(z, m) + 1 \in Nat \ {0}
  BY ZRevRankType
<1> QED
  BY <1>1, PresentType

-----------------------------------------------------------------------------
(* Listings.  A rank counts the members ahead; because no two members have  *)
(* the same number ahead, the ranks of the members present are the numbers  *)
(* from 0 without gaps.                                                     *)

LEMMA RanksOrder ==
  ASSUME NEW z \in [Members -> Int \cup {Absent}]
  PROVE  /\ IsFiniteSet(Present(z))
         /\ \A m \in Present(z) : ZRevRank(z, m) \in 0..Cardinality(Present(z)) - 1
         /\ \A m, n \in Present(z) :
              Before(z, m, n) => ZRevRank(z, m) < ZRevRank(z, n)
<1> DEFINE P == Present(z)
           Ahead(m) == {n \in P : Before(z, n, m)}
<1>1. /\ IsFiniteSet(P) /\ Cardinality(P) \in Nat
      /\ \A m \in P : m \in Nat /\ z[m] \in Int
  BY ZSetAssumption, FS_Subset, FS_CardinalityType DEF Present
<1>2. \A m \in P : /\ IsFiniteSet(Ahead(m)) /\ m \notin Ahead(m)
                   /\ Cardinality(Ahead(m)) = ZRevRank(z, m)
                   /\ ZRevRank(z, m) \in Nat /\ ZRevRank(z, m) < Cardinality(P)
  <2> SUFFICES ASSUME NEW m \in P
               PROVE  /\ IsFiniteSet(Ahead(m)) /\ m \notin Ahead(m)
                      /\ Cardinality(Ahead(m)) = ZRevRank(z, m)
                      /\ ZRevRank(z, m) \in Nat /\ ZRevRank(z, m) < Cardinality(P)
    OBVIOUS
  <2>1. Ahead(m) \in SUBSET P /\ m \notin Ahead(m)
    BY <1>1 DEF Before
  <2>2. /\ IsFiniteSet(Ahead(m)) /\ Cardinality(Ahead(m)) <= Cardinality(P)
        /\ Cardinality(Ahead(m)) # Cardinality(P) /\ Cardinality(Ahead(m)) \in Nat
    BY <1>1, <2>1, FS_Subset, FS_CardinalityType
  <2>3. Cardinality(Ahead(m)) = ZRevRank(z, m)
    BY DEF ZRevRank
  <2> QED  BY <1>1, <2>1, <2>2, <2>3
<1>3. ASSUME NEW m \in P, NEW n \in P, Before(z, m, n)
      PROVE  ZRevRank(z, m) < ZRevRank(z, n)
  <2>1. Ahead(m) \in SUBSET Ahead(n)
    <3> SUFFICES ASSUME NEW k \in Ahead(m) PROVE Before(z, k, n)
      OBVIOUS
    <3>1. Before(z, k, m) /\ k \in P
      OBVIOUS
    <3> QED  BY <1>1, <1>3, <3>1 DEF Before
  <2>2. m \in Ahead(n) /\ m \notin Ahead(m)
    BY <1>2, <1>3
  <2>3. IsFiniteSet(Ahead(n)) /\ Cardinality(Ahead(m)) # Cardinality(Ahead(n))
    BY <1>2, <2>1, <2>2, FS_Subset
  <2>4. Cardinality(Ahead(m)) <= Cardinality(Ahead(n))
    BY <1>2, <2>1, FS_Subset
  <2> HIDE DEF Ahead
  <2> QED  BY <1>2, <2>3, <2>4
<1>4. \A m \in P : ZRevRank(z, m) \in 0..Cardinality(P) - 1
  <2> HIDE DEF P, Ahead
  <2> QED  BY <1>1, <1>2
<1> QED  BY <1>1, <1>3, <1>4

\* No two members have the same rank, and ranks are the order of the board.
LEMMA RanksFaithful ==
  ASSUME NEW z \in [Members -> Int \cup {Absent}],
         NEW m \in Present(z), NEW n \in Present(z)
  PROVE  /\ ZRevRank(z, m) = ZRevRank(z, n) => m = n
         /\ ZRevRank(z, m) < ZRevRank(z, n) <=> Before(z, m, n)
<1>1. /\ ZRevRank(z, m) \in Int /\ ZRevRank(z, n) \in Int
      /\ Before(z, m, n) => ZRevRank(z, m) < ZRevRank(z, n)
      /\ Before(z, n, m) => ZRevRank(z, n) < ZRevRank(z, m)
  BY RanksOrder
<1>2. m # n => Before(z, m, n) \/ Before(z, n, m)
  BY ZSetAssumption DEF Present, Before
<1> QED  BY <1>1, <1>2

LEMMA RanksHaveNoGaps ==
  ASSUME NEW z \in [Members -> Int \cup {Absent}],
         NEW k \in 0..Cardinality(Present(z)) - 1
  PROVE  \E m \in Present(z) : ZRevRank(z, m) = k
<1> DEFINE P == Present(z)
           N == Cardinality(P)
           f == [m \in P |-> ZRevRank(z, m)]
<1>1. N \in Nat
  BY RanksOrder, FS_CardinalityType
<1>2. f \in Injection(P, 0..N - 1)
  <2>1. f \in [P -> 0..N - 1]
    BY RanksOrder
  <2>2. \A m, n \in P : m # n => ZRevRank(z, m) # ZRevRank(z, n)
    BY RanksFaithful
  <2>3. \A m \in P : f[m] = ZRevRank(z, m)
    OBVIOUS
  <2> HIDE DEF f
  <2> QED  BY <2>1, <2>2, <2>3 DEF Injection, IsInjective
<1>3. IsFiniteSet(0..N - 1) /\ Cardinality(0..N - 1) = N
  BY <1>1, FS_Interval
<1>4. f \in Surjection(P, 0..N - 1)
  <2> HIDE DEF f
  <2> QED  BY <1>2, <1>3, FS_Injection
<1> QED  BY <1>4 DEF Surjection

LEMMA ListingRanked ==
  ASSUME NEW z \in [Members -> Int \cup {Absent}], NEW limit \in Nat
  PROVE  LET listed == ZRevRange(z, limit)
         IN  /\ {e.rank : e \in listed} = 1..Cardinality(listed)
             /\ Cardinality(listed) <= limit
             /\ Cardinality(listed) = IF limit < ZCard(z) THEN limit ELSE ZCard(z)
             /\ \A e, f \in listed : e.rank < f.rank => e.score >= f.score
<1> DEFINE P == Present(z)
           N == Cardinality(P)
           c == IF limit < N THEN limit ELSE N
           listed == ZRevRange(z, limit)
           place == [e \in listed |-> e.rank]
<1>1. N \in Nat /\ c \in Nat /\ c <= limit /\ c <= N
  BY RanksOrder, FS_CardinalityType
<1>2. \A e \in listed : \E m \in P : /\ e = [rank |-> ZRevRank(z, m) + 1, user |-> m, score |-> z[m]]
                                    /\ ZRevRank(z, m) < limit
  BY DEF ZRevRange
<1>3. \A m \in P : ZRevRank(z, m) < limit =>
                 [rank |-> ZRevRank(z, m) + 1, user |-> m, score |-> z[m]] \in listed
  BY DEF ZRevRange
<1>4. \A m, n \in P : ZRevRank(z, m) < ZRevRank(z, n) => z[m] >= z[n]
  <2> SUFFICES ASSUME NEW m \in P, NEW n \in P, Before(z, m, n)
               PROVE  z[m] >= z[n]
    BY RanksFaithful
  <2> QED  BY DEF Before, Present
<1>5. \A m, n \in P : ZRevRank(z, m) = ZRevRank(z, n) => m = n
  BY RanksFaithful
<1> HIDE DEF listed
<1>6. \A e \in listed : e.rank \in 1..c
  <2> SUFFICES ASSUME NEW e \in listed PROVE e.rank \in 1..c
    OBVIOUS
  <2>1. PICK m \in P : /\ e = [rank |-> ZRevRank(z, m) + 1, user |-> m, score |-> z[m]]
                       /\ ZRevRank(z, m) < limit
    BY <1>2
  <2>2. ZRevRank(z, m) \in 0..N - 1
    BY RanksOrder
  <2> QED  BY <1>1, <2>1, <2>2
<1>7. \A k \in 1..c : \E e \in listed : e.rank = k
  <2> SUFFICES ASSUME NEW k \in 1..c PROVE \E e \in listed : e.rank = k
    OBVIOUS
  <2>1. k - 1 \in 0..N - 1 /\ k - 1 < limit
    BY <1>1
  <2>2. PICK m \in P : ZRevRank(z, m) = k - 1
    BY <2>1, RanksHaveNoGaps
  <2>3. [rank |-> ZRevRank(z, m) + 1, user |-> m, score |-> z[m]] \in listed
    BY <1>3, <2>1, <2>2
  <2>4. ZRevRank(z, m) + 1 = k
    BY <1>1, <2>2
  <2> QED  BY <2>3, <2>4
<1>8. place \in Injection(listed, 1..c) /\ place \in Surjection(listed, 1..c)
  <2>1. \A e, f \in listed : e.rank = f.rank => e = f
    <3> SUFFICES ASSUME NEW e \in listed, NEW f \in listed, e.rank = f.rank PROVE e = f
      OBVIOUS
    <3>1. PICK m \in P : e = [rank |-> ZRevRank(z, m) + 1, user |-> m, score |-> z[m]]
      BY <1>2
    <3>2. PICK n \in P : f = [rank |-> ZRevRank(z, n) + 1, user |-> n, score |-> z[n]]
      BY <1>2
    <3>3. ZRevRank(z, m) \in 0..N - 1 /\ ZRevRank(z, n) \in 0..N - 1
      BY RanksOrder
    <3>4. ZRevRank(z, m) = ZRevRank(z, n)
      BY <1>1, <3>1, <3>2, <3>3
    <3> QED  BY <1>5, <3>1, <3>2, <3>4
  <2>2. place \in [listed -> 1..c] /\ \A e \in listed : place[e] = e.rank
    BY <1>6
  <2> HIDE DEF place, c
  <2>3. place \in Injection(listed, 1..c)
    BY <2>1, <2>2 DEF Injection, IsInjective
  <2>4. place \in Surjection(listed, 1..c)
    BY <1>7, <2>2 DEF Surjection
  <2> QED  BY <2>3, <2>4
<1>9. Cardinality(listed) = c
  <2> HIDE DEF place, c
  <2>1. IsFiniteSet(1..c) /\ Cardinality(1..c) = c
    BY <1>1, FS_Interval
  <2> QED  BY <1>8, <2>1, FS_Injection
<1>10. {e.rank : e \in listed} = 1..c
  BY <1>6, <1>7
<1>11. \A e, f \in listed : e.rank < f.rank => e.score >= f.score
  <2> SUFFICES ASSUME NEW e \in listed, NEW f \in listed, e.rank < f.rank PROVE e.score >= f.score
    OBVIOUS
  <2>1. PICK m \in P : e = [rank |-> ZRevRank(z, m) + 1, user |-> m, score |-> z[m]]
    BY <1>2
  <2>2. PICK n \in P : f = [rank |-> ZRevRank(z, n) + 1, user |-> n, score |-> z[n]]
    BY <1>2
  <2>3. ZRevRank(z, m) \in 0..N - 1 /\ ZRevRank(z, n) \in 0..N - 1
    BY RanksOrder
  <2>4. ZRevRank(z, m) < ZRevRank(z, n)
    BY <1>1, <2>1, <2>2, <2>3
  <2> QED  BY <1>4, <2>1, <2>2, <2>4
<1> QED  BY <1>1, <1>9, <1>10, <1>11 DEF listed, ZCard

\* A listing that is not full lists every member of the set.
LEMMA ListingComplete ==
  ASSUME NEW z \in ZSets, NEW limit \in Nat,
         Cardinality(ZRevRange(z, limit)) < limit
  PROVE  \A m \in Present(z) : \E e \in ZRevRange(z, limit) : e.user = m
<1> SUFFICES ASSUME NEW m \in Present(z)
             PROVE  \E e \in ZRevRange(z, limit) : e.user = m
  OBVIOUS
<1>1. z \in [Members -> Int \cup {Absent}]
  <2>1. \A x \in Score : x \in Int
    BY ScoreType
  <2> QED  BY <2>1 DEF ZSets
<1>2. ZCard(z) \in Nat /\ ZRevRank(z, m) \in 0..ZCard(z) - 1
  BY <1>1, RanksOrder, FS_CardinalityType DEF ZCard
<1>3. Cardinality(ZRevRange(z, limit)) = IF limit < ZCard(z) THEN limit ELSE ZCard(z)
  BY <1>1, ListingRanked
<1>4. ZRevRank(z, m) < limit
  BY <1>2, <1>3
<1> DEFINE entry == [rank |-> ZRevRank(z, m) + 1, user |-> m, score |-> z[m]]
<1>5. entry.user = m
  OBVIOUS
<1>6. m \in {n \in Present(z) : ZRevRank(z, n) < limit}
  BY <1>4
<1>7. entry \in ZRevRange(z, limit)
  BY <1>6, Zenon DEF ZRevRange
<1> QED
  <2> HIDE DEF entry
  <2> QED  BY <1>5, <1>7
=============================================================================
