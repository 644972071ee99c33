--------------------------- MODULE IncrementProofs ---------------------------
(***************************************************************************)
(* No increment of a player who is on the board is lost, for any number of  *)
(* requests that race, time out and are repeated: the score is what the     *)
(* player had plus every increment that was executed, once for each time.   *)
(***************************************************************************)
EXTENDS LeaderboardProofs

-----------------------------------------------------------------------------
(* Sums over finite sets.  The community modules define the sum by a        *)
(* recursive function that takes the elements in some order.  It is the     *)
(* number of units, pairs of an element and a number up to its amount: the  *)
(* number of units satisfies the recursion, and only one function on the    *)
(* subsets of a finite set does.                                            *)

Units(f, S) == UNION {{i} \X (1..f[i]) : i \in S}

\* The recursion of the sum: h gives the sum of each subset of S.
Sums(h, f, S) ==
  h = [T \in SUBSET S |-> IF T = {} THEN 0
                          ELSE f[CHOOSE i \in T : TRUE] + h[T \ {CHOOSE i \in T : TRUE}]]

LEMMA UnitsFinite ==
  ASSUME NEW S, IsFiniteSet(S), NEW f, \A i \in S : f[i] \in Nat
  PROVE  /\ IsFiniteSet(Units(f, S))
         /\ Cardinality(Units(f, S)) \in Nat
<1> DEFINE Of(i) == {i} \X (1..f[i])
           U == {Of(i) : i \in S}
<1>1. ASSUME NEW i \in S PROVE IsFiniteSet(Of(i))
  <2>1. IsFiniteSet({i})
    BY FS_Singleton
  <2>2. f[i] \in Int
    OBVIOUS
  <2>3. IsFiniteSet(1..f[i])
    BY <2>2, FS_Interval
  <2> QED  BY <2>1, <2>3, FS_Product
<1>2. IsFiniteSet(U)
  <2> DEFINE of == [i \in S |-> Of(i)]
  <2>1. of \in Surjection(S, U)
    BY DEF Surjection
  <2> HIDE DEF of, U
  <2> QED  BY <2>1, FS_Surjection
<1>3. IsFiniteSet(UNION U)
  BY <1>1, <1>2, FS_UNION
<1> QED  BY <1>3, FS_CardinalityType DEF Units

LEMMA UnitsApart ==
  ASSUME NEW S, IsFiniteSet(S), NEW f, \A i \in S : f[i] \in Nat, NEW x \in S
  PROVE  Cardinality(Units(f, S)) = f[x] + Cardinality(Units(f, S \ {x}))
<1> DEFINE X == {x} \X (1..f[x])
<1>1. Units(f, S) = X \cup Units(f, S \ {x}) /\ X \cap Units(f, S \ {x}) = {}
  BY DEF Units
<1>2. IsFiniteSet(X) /\ Cardinality(X) = f[x]
  <2>1. IsFiniteSet({x}) /\ Cardinality({x}) = 1
    BY FS_Singleton
  <2>2. IsFiniteSet(1..f[x]) /\ Cardinality(1..f[x]) = f[x]
    BY FS_Interval
  <2> QED  BY <2>1, <2>2, FS_Product
<1>3. IsFiniteSet(S \ {x})
  BY FS_Difference
<1>4. IsFiniteSet(Units(f, S \ {x})) /\ Cardinality(Units(f, S \ {x})) \in Nat
  BY <1>3, UnitsFinite
<1>5. Cardinality({}) = 0
  BY FS_EmptySet
<1>6. f[x] \in Nat
  OBVIOUS
<1> HIDE DEF X
<1>7. Cardinality(X \cup Units(f, S \ {x})) =
        Cardinality(X) + Cardinality(Units(f, S \ {x})) - Cardinality(X \cap Units(f, S \ {x}))
  BY <1>2, <1>4, FS_Union
<1>8. /\ Cardinality(Units(f, S)) = Cardinality(X \cup Units(f, S \ {x}))
      /\ Cardinality(X \cap Units(f, S \ {x})) = 0
  BY <1>1, <1>5, Zenon
<1> QED  BY <1>2, <1>4, <1>6, <1>7, <1>8

LEMMA UnitsSum ==
  ASSUME NEW S, IsFiniteSet(S), NEW f, \A i \in S : f[i] \in Nat
  PROVE  Sums([T \in SUBSET S |-> Cardinality(Units(f, T))], f, S)
<1> DEFINE h == [T \in SUBSET S |-> Cardinality(Units(f, T))]
           first(T) == CHOOSE i \in T : TRUE
<1>1. ASSUME NEW T \in SUBSET S
      PROVE  h[T] = IF T = {} THEN 0 ELSE f[first(T)] + h[T \ {first(T)}]
  <2>1. CASE T = {}
    BY <2>1, FS_EmptySet DEF Units
  <2>2. CASE T # {}
    <3>1. first(T) \in T /\ IsFiniteSet(T)
      BY <2>2, FS_Subset
    <3>2. Cardinality(Units(f, T)) = f[first(T)] + Cardinality(Units(f, T \ {first(T)}))
      BY <3>1, UnitsApart
    <3>3. h[T] = Cardinality(Units(f, T))
          /\ h[T \ {first(T)}] = Cardinality(Units(f, T \ {first(T)}))
      OBVIOUS
    <3> HIDE DEF h, first
    <3> QED  BY <2>2, <3>2, <3>3
  <2> QED  BY <2>1, <2>2
<1> QED  BY <1>1 DEF Sums

LEMMA OneSum ==
  ASSUME NEW S, IsFiniteSet(S), NEW f, NEW g, NEW h, Sums(g, f, S), Sums(h, f, S)
  PROVE  g[S] = h[S]
<1> DEFINE first(T) == CHOOSE i \in T : TRUE
           Differ == {T \in SUBSET S : g[T] # h[T]}
<1>1. /\ \A T \in SUBSET S : g[T] = IF T = {} THEN 0 ELSE f[first(T)] + g[T \ {first(T)}]
      /\ \A T \in SUBSET S : h[T] = IF T = {} THEN 0 ELSE f[first(T)] + h[T \ {first(T)}]
  BY DEF Sums
<1>2. ASSUME Differ # {} PROVE FALSE
  <2>1. IsWellFoundedOn(StrictSubsetOrdering(S), SUBSET S) /\ Differ \subseteq SUBSET S
    BY FS_StrictSubsetOrderingWellFounded, FS_FiniteSubsetsOfFinite
  <2> HIDE DEF Differ
  <2>0. PICK T \in Differ : \A U \in Differ : <<U, T>> \notin StrictSubsetOrdering(S)
    BY <1>2, <2>1, WFMin
  <2> USE DEF Differ
  <2>2. T # {} /\ first(T) \in T
    BY <1>1
  <2>3. T \ {first(T)} \in SUBSET S /\ T \ {first(T)} \subseteq T /\ T \ {first(T)} # T
    BY <2>2
  <2>4. g[T \ {first(T)}] = h[T \ {first(T)}]
    BY <2>0, <2>3 DEF StrictSubsetOrdering
  <2> QED  BY <1>1, <2>2, <2>4
<1> QED  BY <1>2

LEMMA SumIsCount ==
  ASSUME NEW S, IsFiniteSet(S), NEW f, \A i \in S : f[i] \in Nat
  PROVE  SumFunctionOnSet(f, S) = Cardinality(Units(f, S))
<1> DEFINE h == [T \in SUBSET S |-> Cardinality(Units(f, T))]
<1>1. SumFunctionOnSet(f, S) = (CHOOSE g : Sums(g, f, S))[S]
  BY DEF SumFunctionOnSet, FoldFunctionOnSet, MapThenFoldSet, Sums
<1>2. Sums(h, f, S)
  BY UnitsSum
<1>3. PICK g : Sums(g, f, S) /\ g = CHOOSE k : Sums(k, f, S)
  BY <1>2
<1>4. g[S] = h[S]
  BY <1>2, <1>3, OneSum
<1> QED  BY <1>1, <1>3, <1>4

-----------------------------------------------------------------------------
(* What follows for sums, which are of natural numbers here.                *)

LEMMA SumType ==
  ASSUME NEW S, IsFiniteSet(S), NEW f, \A i \in S : f[i] \in Nat
  PROVE  SumFunctionOnSet(f, S) \in Nat
  BY SumIsCount, UnitsFinite

\* More elements or larger summands do not make a sum smaller.
LEMMA SumMonotone ==
  ASSUME NEW T, IsFiniteSet(T), NEW S \in SUBSET T,
         NEW f, \A i \in S : f[i] \in Nat,
         NEW g, \A i \in T : g[i] \in Nat,
         \A i \in S : f[i] <= g[i]
  PROVE  SumFunctionOnSet(f, S) <= SumFunctionOnSet(g, T)
<1>1. IsFiniteSet(S)
  BY FS_Subset
<1>2. Units(f, S) \in SUBSET Units(g, T)
  BY DEF Units
<1>3. IsFiniteSet(Units(g, T))
  BY UnitsFinite
<1>4. Cardinality(Units(f, S)) <= Cardinality(Units(g, T))
  BY <1>2, <1>3, FS_Subset
<1>5. /\ SumFunctionOnSet(f, S) = Cardinality(Units(f, S))
      /\ SumFunctionOnSet(g, T) = Cardinality(Units(g, T))
  BY <1>1, SumIsCount
<1> QED  BY <1>4, <1>5

\* Elements without an amount do not count, nor does what a function is elsewhere.
LEMMA SumSame ==
  ASSUME NEW T, IsFiniteSet(T), NEW S \in SUBSET T,
         NEW f, \A i \in S : f[i] \in Nat,
         NEW g, \A i \in S : g[i] = f[i], \A i \in T \ S : g[i] = 0
  PROVE  SumFunctionOnSet(g, T) = SumFunctionOnSet(f, S)
<1>1. IsFiniteSet(S) /\ \A i \in T : g[i] \in Nat
  BY FS_Subset
<1>2. \A i \in T \ S : 1..g[i] = {}
  OBVIOUS
<1>3. Units(g, T) = Units(f, S)
  BY <1>2 DEF Units
<1>4. /\ SumFunctionOnSet(f, S) = Cardinality(Units(f, S))
      /\ SumFunctionOnSet(g, T) = Cardinality(Units(g, T))
  BY <1>1, SumIsCount
<1> QED  BY <1>3, <1>4, Zenon

LEMMA SumSplit ==
  ASSUME NEW S, IsFiniteSet(S), NEW f, \A i \in S : f[i] \in Nat, NEW x \in S
  PROVE  SumFunctionOnSet(f, S) = f[x] + SumFunctionOnSet(f, S \ {x})
<1>1. IsFiniteSet(S \ {x})
  BY FS_RemoveElement
<1>2. /\ SumFunctionOnSet(f, S) = Cardinality(Units(f, S))
      /\ SumFunctionOnSet(f, S \ {x}) = Cardinality(Units(f, S \ {x}))
  BY <1>1, SumIsCount
<1> QED  BY <1>2, UnitsApart

\* What is added to one summand is added to the sum.
LEMMA SumAdds ==
  ASSUME NEW S, IsFiniteSet(S), NEW f, \A i \in S : f[i] \in Nat,
         NEW x \in S, NEW more \in Nat,
         NEW g, g[x] = f[x] + more, \A i \in S \ {x} : g[i] = f[i]
  PROVE  SumFunctionOnSet(g, S) = SumFunctionOnSet(f, S) + more
<1>1. IsFiniteSet(S \ {x}) /\ \A i \in S : g[i] \in Nat
  BY FS_RemoveElement
<1>2. SumFunctionOnSet(f, S) = f[x] + SumFunctionOnSet(f, S \ {x})
  BY SumSplit
<1>3. SumFunctionOnSet(g, S) = g[x] + SumFunctionOnSet(g, S \ {x})
  BY <1>1, SumSplit
<1>4. SumFunctionOnSet(g, S \ {x}) = SumFunctionOnSet(f, S \ {x})
  BY <1>1, SumSame
<1>5. SumFunctionOnSet(f, S \ {x}) \in Nat /\ f[x] \in Nat
  BY <1>1, SumType
<1> QED  BY <1>2, <1>3, <1>4, <1>5

-----------------------------------------------------------------------------
(* The account of a player.                                                 *)

Sent == {i \in Requests : pc[i] # "new"}

\* What the attempts of request i that took effect have added.
Effects(S) == [i \in S |-> req[i].by * Cardinality(ran[i])]

\* Nobody is about to create player p.
NotCreated(p) ==
  /\ \A i \in Requests : pc[i] = "ZADD_NEW" => req[i].user # p
  /\ \A m \in limbo : m.cmd = "ZADD_NEW" => req[m.id].user # p

\* Player p has what it had, plus what was added, up to the overflow.
Account(p) ==
  /\ board[p] # Absent
  /\ board[p] = Plus(Seed[p], SumFunctionOnSet(Effects(IncrementsOf(p)), IncrementsOf(p)))

\* The players of AcknowledgedIncrementsCount.
Kept == {p \in Players : Seed[p] # Absent /\ Only(p, Incremented)}

Accounts ==
  /\ IsFiniteSet(Sent)
  /\ \A i \in Sent : req[i] \in Traffic
  /\ \A p \in Kept : NotCreated(p) /\ Account(p)

\* A request arrives: nothing else has changed, and nothing is created yet.
Arrives(j) ==
  /\ pc[j] = "new"
  /\ \E r \in Traffic : req' = [req EXCEPT ![j] = r]
  /\ \E c : pc' = [pc EXCEPT ![j] = c] /\ c \notin {"new", "ZADD_NEW"}
  /\ UNCHANGED <<redis, limbo, ran>>

\* A request goes on, or stops, without a write.
GoesOn == Sent' = Sent /\ UNCHANGED <<redis, req, ran>>

\* Attempt n of a sent request is executed, for the first time.
Executes(i, cmd, n) ==
  /\ i \in Sent
  /\ Fits(cmd, req[i])
  /\ cmd = "ZADD_NEW" => pc[i] = cmd \/ \E m \in limbo : m.id = i /\ m.cmd = cmd
  /\ n \notin ran[i] /\ n \in 0..Retries
  /\ Write(i, cmd, n)
  /\ Sent' = Sent /\ UNCHANGED req

LEMMA ArrivalArrives ==
  ASSUME IInv, NEW j \in Requests, Arrive(j)
  PROVE  Arrives(j)
<1>1. PICK r \in Traffic : Accept(j, r) \/ Refuse(j, r) \/ NothingToDo(j, r) \/ OptInOrOut(j, r)
  BY DEF Arrive
<1>2. CASE Accept(j, r)
  <2>1. r.op \in Ops
    BY RequestAssumption DEF IsRequest
  <2>2. FirstCommand(r) \notin {"new", "ZADD_NEW"}
    BY <1>2, <2>1 DEF Accept, Consent, Ops, FirstCommand
  <2> QED  BY <1>2, <2>2 DEF Accept, Arrives
<1>3. CASE Refuse(j, r) \/ NothingToDo(j, r) \/ OptInOrOut(j, r)
  BY <1>3 DEF Refuse, NothingToDo, OptInOrOut, Dismiss, Finish, Arrives
<1> QED  BY <1>1, <1>2, <1>3

LEMMA AnswerGoesOnOrExecutes ==
  ASSUME IInv, NEW i \in Requests, Respond(i)
  PROVE  GoesOn \/ \E cmd \in Writes, n \in 0..Retries : Executes(i, cmd, n)
<1>1. ASSUME NEW cmd \in Writes, NEW outcome \in {"ok", "notfound"}, NEW answer,
             WriteAnswered(i, cmd, outcome, answer)
      PROVE  Executes(i, cmd, tries[i]) /\ tries[i] \in 0..Retries
  <2>1. pc[i] = cmd /\ i \in Sent /\ tries[i] \in 0..Retries
    BY <1>1 DEF WriteAnswered, Answered, Sent, Writes, IInv, TypeOK
  <2>2. Fits(cmd, req[i])
    BY <2>1 DEF IInv, Control, Commands
  <2>3. tries[i] \notin ran[i]
    BY <2>1 DEF IInv, Attempts, TypeOK
  <2>4. Sent' = Sent
    BY <1>1, <2>1 DEF WriteAnswered, Finish, Sent, IInv, TypeOK
  <2> QED  BY <1>1, <2>1, <2>2, <2>3, <2>4 DEF WriteAnswered, Answered, Executes
<1>2. CASE SetScore(i) \/ SetTenantScore(i) \/ SetScoresBulk(i) \/ CreateScore(i)
  BY <1>1, <1>2 DEF SetScore, SetTenantScore, SetScoresBulk, CreateScore, Writes
<1>3. CASE AddScore(i) \/ DeleteUser(i) \/ DeleteUsers(i) \/ ResetLeaderboard(i)
  BY <1>1, <1>3 DEF AddScore, DeleteUser, DeleteUsers, ResetLeaderboard, Writes
<1>4. CASE ReadScore(i)
  BY <1>4 DEF ReadScore, Answered, GoesOn, Sent, IInv, TypeOK
<1>5. CASE CountPlayers(i) \/ ListPlayers(i) \/ GetRank(i)
  BY <1>5 DEF CountPlayers, ListPlayers, GetRank, Answered, Finish, GoesOn, Sent, IInv, TypeOK
<1> QED  BY <1>2, <1>3, <1>4, <1>5 DEF Respond

LEMMA StepEffects ==
  ASSUME IInv, [Next]_vars
  PROVE  \/ \E j \in Requests : Arrives(j)
         \/ GoesOn
         \/ \E i \in Requests, cmd \in Writes, n \in 0..Retries : Executes(i, cmd, n)
<1>1. ASSUME NEW i \in Requests, Fail(i) PROVE GoesOn
  BY <1>1 DEF Fail, Resend, GiveUp, LoseConnection, Abandoned, Finish, GoesOn, Sent,
              Commands, Reads, Writes, IInv, TypeOK
<1>2. ASSUME NEW m \in limbo, ExecuteLate(m)
      PROVE  /\ m.id \in Requests /\ m.cmd \in Writes /\ m.try \in 0..Retries
             /\ Executes(m.id, m.cmd, m.try)
  <2>1. m.id \in Requests /\ m.cmd \in Writes /\ m.try \in 0..Retries /\ Fits(m.cmd, req[m.id])
    BY DEF IInv, CopiesFit, TypeOK, Copies
  <2>2. m.id \in Sent /\ m.try \notin ran[m.id]
    BY <2>1 DEF IInv, Attempts, CopiesOf, CopiesNotRun, Sent
  <2> QED  BY <1>2, <2>1, <2>2 DEF ExecuteLate, locals, Executes, Sent
<1>3. CASE UNCHANGED vars
  BY <1>3 DEF vars, locals, GoesOn, Sent
<1> QED  BY <1>1, <1>2, <1>3, ArrivalArrives, AnswerGoesOnOrExecutes DEF Next

\* Only a ZSCORE that finds nobody leads to a creation.
LEMMA NotCreatedStays ==
  ASSUME IInv, [Next]_vars, NEW p \in Players, board[p] # Absent, NotCreated(p)
  PROVE  NotCreated(p)'
<1> USE DEF IInv, TypeOK
<1>1. \A m \in limbo : m.id \in Requests /\ pc[m.id] # "new"
  BY DEF Attempts, CopiesOf, Copies
<1>2. ASSUME NEW j \in Requests, Arrives(j) PROVE NotCreated(p)'
  BY <1>1, <1>2 DEF Arrives, NotCreated
<1>3. ASSUME NEW j \in Requests, NEW cmd \in Writes, NEW outcome \in {"ok", "notfound"}, NEW answer,
             WriteAnswered(j, cmd, outcome, answer)
      PROVE  NotCreated(p)'
  BY <1>3 DEF WriteAnswered, Answered, Finish, NotCreated
<1>4. ASSUME NEW j \in Requests, Respond(j) PROVE NotCreated(p)'
  <2>1. CASE ReadScore(j)
    BY <2>1 DEF ReadScore, Answered, NotCreated
  <2>2. CASE CountPlayers(j) \/ ListPlayers(j) \/ GetRank(j)
    BY <2>2 DEF CountPlayers, ListPlayers, GetRank, Answered, Finish, NotCreated
  <2>3. CASE SetScore(j) \/ SetTenantScore(j) \/ SetScoresBulk(j) \/ CreateScore(j)
    BY <1>3, <2>3 DEF SetScore, SetTenantScore, SetScoresBulk, CreateScore, Writes
  <2>4. CASE AddScore(j) \/ DeleteUser(j) \/ DeleteUsers(j) \/ ResetLeaderboard(j)
    BY <1>3, <2>4 DEF AddScore, DeleteUser, DeleteUsers, ResetLeaderboard, Writes
  <2> QED  BY <1>4, <2>1, <2>2, <2>3, <2>4 DEF Respond
<1>5. ASSUME NEW j \in Requests, Fail(j) PROVE NotCreated(p)'
  BY <1>5 DEF Fail, Resend, GiveUp, LoseConnection, Abandoned, Finish, NotCreated
<1>6. ASSUME NEW m \in limbo, ExecuteLate(m) PROVE NotCreated(p)'
  BY <1>6 DEF ExecuteLate, locals, NotCreated
<1>7. CASE UNCHANGED vars
  BY <1>7 DEF vars, locals, NotCreated
<1> QED  BY <1>2, <1>4, <1>5, <1>6, <1>7, ArrivalArrives DEF Next

-----------------------------------------------------------------------------
\* The increments of a player are finitely many requests with an amount each.
LEMMA IncrementsType ==
  ASSUME IInv, Accounts, NEW p \in Players
  PROVE  LET S == IncrementsOf(p)
         IN  /\ IsFiniteSet(S) /\ S \subseteq Sent
             /\ \A i \in S : /\ req[i].by \in Nat /\ req[i].by > 0
                             /\ Cardinality(ran[i]) \in 0..tries[i] + 1
                             /\ tries[i] \in Nat /\ IsFiniteSet(ran[i])
                             /\ Effects(S)[i] \in Nat
             /\ SumFunctionOnSet(Effects(S), S) \in Nat
<1> DEFINE S == IncrementsOf(p)
<1>1. S \in SUBSET Sent
  BY DEF IncrementsOf, Asks, Sent
<1>2. IsFiniteSet(S)
  BY <1>1, FS_Subset DEF Accounts
<1>3. ASSUME NEW i \in S
      PROVE  /\ req[i].by \in Nat /\ req[i].by > 0
             /\ Cardinality(ran[i]) \in 0..tries[i] + 1
             /\ tries[i] \in Nat /\ IsFiniteSet(ran[i])
             /\ Effects(S)[i] \in Nat
  <2>1. i \in Requests /\ req[i] \in Traffic /\ Valid(req[i]) /\ req[i].op = "incr"
    BY <1>1 DEF IncrementsOf, Asks, Accounts, Sent
  <2>2. req[i].by \in Nat /\ req[i].by > 0
    BY <2>1, RequestAssumption DEF IsRequest, Valid
  <2>3. tries[i] \in Nat /\ ran[i] \in SUBSET (0..tries[i])
    BY <2>1, LeaderboardAssumption DEF IInv, TypeOK, CopiesNotRun
  <2>4. IsFiniteSet(0..tries[i]) /\ Cardinality(0..tries[i]) = tries[i] + 1
    BY <2>3, FS_Interval
  <2>5. IsFiniteSet(ran[i]) /\ Cardinality(ran[i]) <= tries[i] + 1 /\ Cardinality(ran[i]) \in Nat
    BY <2>3, <2>4, FS_Subset, FS_CardinalityType
  <2> DEFINE by == req[i].by
             runs == Cardinality(ran[i])
  <2>6. Effects(S)[i] = by * runs
    BY DEF Effects
  <2>7. by \in Nat /\ runs \in Nat
    BY <2>2, <2>5
  <2>8. by * runs \in Nat
    <3> HIDE DEF by, runs
    <3> QED  BY <2>7
  <2> QED  BY <2>2, <2>3, <2>5, <2>6, <2>8
<1>4. SumFunctionOnSet(Effects(S), S) \in Nat
  <2> HIDE DEF S
  <2> QED  BY <1>2, <1>3, SumType
<1> QED  BY <1>1, <1>2, <1>3, <1>4

LEMMA InitAccounts == Init => Accounts
<1> SUFFICES ASSUME Init PROVE Accounts
  OBVIOUS
<1>1. Sent = {}
  BY DEF Init, Sent
<1>2. ASSUME NEW p \in Kept PROVE NotCreated(p) /\ Account(p)
  <2>1. IncrementsOf(p) = {}
    BY <1>1 DEF IncrementsOf, Asks, Sent
  <2>2. SumFunctionOnSet(Effects({}), {}) = 0
    <3>1. Units(Effects({}), {}) = {}
      BY DEF Units
    <3> QED  BY <3>1, SumIsCount, FS_EmptySet, Zenon
  <2>3. board[p] = Seed[p] /\ Seed[p] \in Score
    BY LeaderboardAssumption DEF Init, Kept, ZSets, Players
  <2>4. Plus(Seed[p], 0) = Seed[p]
    BY <2>3, ZSetAssumption DEF Plus, Score, Inf
  <2>5. Account(p)
    BY <2>1, <2>2, <2>3, <2>4 DEF Account, Kept
  <2>6. NotCreated(p)
    BY DEF Init, NotCreated
  <2> QED  BY <2>5, <2>6
<1> QED  BY <1>1, <1>2, FS_EmptySet DEF Accounts

\* An arriving request has not added anything.
LEMMA ArrivalKeepsAccount ==
  ASSUME IInv, Accounts, NEW p \in Players, Account(p),
         NEW j \in Requests, Arrives(j)
  PROVE  Account(p)'
<1> DEFINE S == IncrementsOf(p)
           T == IncrementsOf(p)'
           f == Effects(S)
           g == Effects(IncrementsOf(p))'
<1>1. /\ IsFiniteSet(S) /\ \A i \in S : f[i] \in Nat
  BY IncrementsType
<1>2. /\ \A i \in Requests \ {j} : req'[i] = req[i] /\ pc'[i] = pc[i]
      /\ pc[j] = "new" /\ ran' = ran /\ board' = board
      /\ req'[j] \in Traffic
  BY DEF Arrives, redis, IInv, TypeOK
<1>3. j \notin S /\ S \subseteq T /\ T \subseteq S \cup {j}
  BY <1>2 DEF IncrementsOf, Asks, Arrives
<1>4. IsFiniteSet(T)
  BY <1>1, <1>3, FS_AddElement, FS_Subset
<1>5. ran[j] = {}
  BY <1>2 DEF IInv, Attempts
<1>6. \A i \in S : g[i] = f[i]
  <2>1. S \subseteq Requests \ {j}
    BY <1>3 DEF IncrementsOf
  <2> QED  BY <1>2, <1>3, <2>1 DEF Effects
<1>7. \A i \in T \ S : g[i] = 0
  <2>1. ASSUME NEW i \in T \ S PROVE g[i] = 0
    <3>1. i = j /\ i \in T
      BY <1>3
    <3>2. req'[j] \in Traffic /\ Valid(req'[j]) /\ req'[j].op = "incr"
      BY <1>2, <3>1 DEF IncrementsOf, Asks
    <3>3. req'[j].by \in Int
      BY <3>2, RequestAssumption DEF IsRequest
    <3>4. g[i] = req'[j].by * Cardinality({})
      BY <1>2, <1>5, <3>1 DEF Effects
    <3>5. Cardinality({}) = 0
      BY FS_EmptySet
    <3> QED  BY <3>3, <3>4, <3>5
  <2> QED  BY <2>1
<1>8. SumFunctionOnSet(g, T) = SumFunctionOnSet(f, S)
  <2>1. /\ \A i \in S : f[i] \in Nat
        /\ \A i \in S : g[i] = f[i]
        /\ \A i \in T \ S : g[i] = 0
    BY <1>1, <1>6, <1>7
  <2> HIDE DEF f, g, S, T
  <2>2. SumFunctionOnSet(g, T) = SumFunctionOnSet(f, S)
    BY <1>3, <1>4, <2>1, SumSame
  <2> QED  BY <2>2
<1> QED  BY <1>2, <1>8 DEF Account

LEMMA AnswerKeepsAccount ==
  ASSUME IInv, NEW p \in Players, Account(p), GoesOn
  PROVE  Account(p)'
<1>1. /\ \A i \in Requests : pc'[i] # "new" <=> pc[i] # "new"
      /\ UNCHANGED <<board, req, ran>>
  BY DEF GoesOn, Sent, redis
<1>2. IncrementsOf(p)' = IncrementsOf(p)
  BY <1>1 DEF IncrementsOf, Asks
<1>3. Effects(IncrementsOf(p))' = Effects(IncrementsOf(p))
  BY <1>1, <1>2 DEF Effects
<1> QED  BY <1>1, <1>2, <1>3 DEF Account

\* Adding twice is adding the sum.
LEMMA PlusPlus ==
  ASSUME NEW a \in Score, NEW b \in Nat, NEW c \in Nat
  PROVE  Plus(Plus(a, b), c) = Plus(a, b + c)
BY ZSetAssumption DEF Plus, Score, Inf

\* An executed increment adds its amount to its player's score and account, and
\* what is executed for another player's request leaves both.
LEMMA ExecutionKeepsAccount ==
  ASSUME IInv, Accounts, NEW p \in Kept,
         NEW i \in Requests, NEW cmd \in Writes, NEW n \in 0..Retries, Executes(i, cmd, n)
  PROVE  Account(p)'
<1> DEFINE r == req[i]
           S == IncrementsOf(p)
<1>1. /\ IsFiniteSet(S) /\ \A k \in S : Effects(S)[k] \in Nat
      /\ SumFunctionOnSet(Effects(S), S) \in Nat
      /\ S \subseteq Sent
      /\ \A k \in S : req[k].by \in Nat /\ req[k].by > 0 /\ IsFiniteSet(ran[k])
  BY IncrementsType DEF Kept
<1>2. /\ \A k \in Requests : pc'[k] # "new" <=> pc[k] # "new"
      /\ UNCHANGED req /\ Fits(cmd, r) /\ Execute(cmd, r) /\ n \notin ran[i]
      /\ ran' = [ran EXCEPT ![i] = IF TakesEffect(cmd, r) THEN @ \cup {n} ELSE @]
      /\ i \in Sent
  BY DEF Executes, Write, Sent
<1>3. S' = S
  BY <1>2 DEF IncrementsOf, Asks
<1>4. /\ p \in Players /\ Seed[p] \in Score
      /\ board[p] # Absent /\ board[p] \in Score
      /\ board[p] = Plus(Seed[p], SumFunctionOnSet(Effects(S), S))
      /\ NotCreated(p)
  BY LeaderboardAssumption DEF Accounts, Account, Kept, IInv, TypeOK, ZSets, Players
<1>5. CASE i \notin S
  <2>1. board'[p] = board[p]
    <3>1. p \notin Touches(r)
      <4> SUFFICES ASSUME p \in Touches(r) PROVE FALSE
        OBVIOUS
      <4>1. r.op = "incr"
        BY <1>2 DEF Kept, Only, Incremented, Fits
      <4>2. r.user = p
        BY <4>1 DEF Touches
      <4> QED  BY <1>2, <1>5, <4>1, <4>2 DEF IncrementsOf, Asks, Fits, Sent
    <3>2. CASE cmd # "TENANT_SCORE_UPDATE"
      BY <1>2, <1>4, <3>1, <3>2, WriteTouches
    <3>3. CASE cmd = "TENANT_SCORE_UPDATE"
      <4>1. r.user # p
        BY <1>2, <3>1, <3>3 DEF Touches, Fits, OpsOf, Commands, Writes
      <4> QED  BY <1>2, <1>4, <3>3, <4>1 DEF Execute, TenantScoreUpdate, ZAdd, Players
    <3> QED  BY <3>2, <3>3
  <2>2. \A k \in S : ran'[k] = ran[k]
    BY <1>2, <1>5 DEF IInv, TypeOK, IncrementsOf
  <2>3. Effects(S)' = Effects(S)
    BY <1>2, <1>3, <2>2 DEF Effects
  <2> QED  BY <1>3, <1>4, <2>1, <2>3 DEF Account
<1>6. CASE i \in S
  <2>1. r.op = "incr" /\ r.user = p
    BY <1>6 DEF IncrementsOf, Asks
  <2>2. cmd = "ZINCRBY"
    <3>1. cmd \in {"ZADD_NEW", "ZINCRBY"}
      BY <1>2, <2>1 DEF Fits, OpsOf, Commands, Writes
    <3>2. cmd # "ZADD_NEW"
      BY <1>4, <2>1 DEF Executes, NotCreated
    <3> QED  BY <3>1, <3>2
  <2>3. board'[p] = Plus(board[p], r.by)
    BY <1>2, <1>4, <2>1, <2>2 DEF Execute, BoardAfter, ZIncrBy, IInv, TypeOK, ZSets, Players
  <2>4. ran' = [ran EXCEPT ![i] = ran[i] \cup {n}]
    BY <1>2, <2>2 DEF TakesEffect
  <2>5. Cardinality(ran[i] \cup {n}) = Cardinality(ran[i]) + 1 /\ Cardinality(ran[i]) \in Nat
    BY <1>1, <1>2, <1>6, FS_AddElement, FS_CardinalityType
  <2>6. ran'[i] = ran[i] \cup {n} /\ \A k \in S \ {i} : ran'[k] = ran[k]
    BY <2>4 DEF IInv, TypeOK, IncrementsOf
  <2> DEFINE f == Effects(S)
             g == Effects(S)'
             more == r.by
  <2>7. more \in Nat /\ more > 0
    BY <1>1, <1>6
  <2>8. g[i] = f[i] + more
    <3> DEFINE runs == Cardinality(ran[i])
    <3>1. f[i] = more * runs
      BY <1>6 DEF Effects
    <3>2. g[i] = more * (runs + 1)
      BY <1>2, <1>3, <1>6, <2>5, <2>6 DEF Effects
    <3>3. runs \in Nat
      BY <2>5
    <3> HIDE DEF f, g, more, runs
    <3> QED  BY <2>7, <3>1, <3>2, <3>3
  <2>9. \A k \in S \ {i} : g[k] = f[k]
    BY <1>2, <1>3, <2>6 DEF Effects
  <2>10. SumFunctionOnSet(g, S) = SumFunctionOnSet(f, S) + more
    <3> HIDE DEF f, g, S, more
    <3> QED  BY <1>1, <1>6, <2>7, <2>8, <2>9, SumAdds DEF f
  <2>11. board'[p] = Plus(Seed[p], SumFunctionOnSet(f, S) + more)
    <3> HIDE DEF f, S, more
    <3>1. SumFunctionOnSet(f, S) \in Nat
      BY <1>1 DEF f
    <3>2. Plus(Plus(Seed[p], SumFunctionOnSet(f, S)), more) = Plus(Seed[p], SumFunctionOnSet(f, S) + more)
      BY <1>4, <2>7, <3>1, PlusPlus
    <3> QED  BY <1>4, <2>3, <3>2 DEF f, more
  <2>12. board'[p] # Absent
    BY <1>4, <2>3, <2>7, ZSetAssumption DEF Plus, Score, Inf
  <2> QED  BY <1>3, <2>10, <2>11, <2>12 DEF Account
<1> QED  BY <1>5, <1>6

\* Every step keeps the accounts.
LEMMA NextAccounts ==
  ASSUME IInv, Accounts, [Next]_vars
  PROVE  Accounts'
<1>1. ASSUME NEW p \in Kept PROVE NotCreated(p)' /\ Account(p)'
  <2>1. p \in Players /\ NotCreated(p) /\ Account(p) /\ board[p] # Absent
    BY DEF Accounts, Account, Kept
  <2>2. Account(p)'
    BY <2>1, StepEffects, ArrivalKeepsAccount, AnswerKeepsAccount, ExecutionKeepsAccount
  <2> QED  BY <2>1, <2>2, NotCreatedStays
<1>2. IsFiniteSet(Sent') /\ \A i \in Sent' : req'[i] \in Traffic
  <2>1. CASE \E j \in Requests : Arrives(j)
    <3>1. PICK j \in Requests : Arrives(j)
      BY <2>1
    <3>2. PICK r \in Traffic : req' = [req EXCEPT ![j] = r]
      BY <3>1 DEF Arrives
    <3>3. Sent' \subseteq Sent \cup {j}
      BY <3>1 DEF Arrives, Sent, IInv, TypeOK
    <3>4. IsFiniteSet(Sent')
      BY <3>3, FS_AddElement, FS_Subset DEF Accounts
    <3> QED  BY <3>2, <3>3, <3>4 DEF Accounts, Sent, IInv, TypeOK
  <2>2. CASE Sent' = Sent /\ req' = req
    BY <2>2 DEF Accounts
  <2> QED  BY <2>1, <2>2, StepEffects DEF GoesOn, Executes
<1> QED  BY <1>1, <1>2 DEF Accounts, Kept

\* The score of a player who is only incremented is exactly what the player had
\* plus every increment that was executed, counted once for each time, up to the
\* overflow (leaderboard_service.py:257): no two of them can overwrite each other.
THEOREM AccountsAreExact == Spec => []Accounts
<1>1. IInv /\ Accounts /\ [Next]_vars => Accounts'
  BY NextAccounts
<1> QED  BY <1>1, InitAccounts, Invariance, PTL DEF Spec

\* Hence what was acknowledged is in the score, and no more than what was sent.
LEMMA AccountAddsUp ==
  ASSUME IInv, Accounts, NEW p \in Kept
  PROVE  ScoreAddsUp(p)
<1> DEFINE S == IncrementsOf(p)
           done == {i \in S : pc[i] = "ok"}
           given == [i \in S |-> req[i].by]
           asked == [i \in S |-> req[i].by * (tries[i] + 1)]
           f == Effects(S)
           gain == Points(board, p) - Points(Seed, p)
<1>1. /\ IsFiniteSet(S) /\ S \subseteq Sent
      /\ SumFunctionOnSet(f, S) \in Nat
      /\ \A i \in S : f[i] \in Nat
  BY IncrementsType DEF Kept
<1>2. ASSUME NEW i \in S
      PROVE  /\ given[i] \in Nat /\ asked[i] \in Nat /\ f[i] <= asked[i]
             /\ pc[i] = "ok" => given[i] <= f[i]
  <2> DEFINE by == req[i].by
             runs == Cardinality(ran[i])
             sent == tries[i] + 1
  <2>1. by \in Nat /\ runs \in Nat /\ sent \in Nat /\ runs <= sent
    <3>1. /\ req[i].by \in Nat /\ Cardinality(ran[i]) \in 0..tries[i] + 1 /\ tries[i] \in Nat
      BY IncrementsType DEF Kept
    <3> QED  BY <3>1
  <2>2. given[i] = by /\ asked[i] = by * sent /\ f[i] = by * runs
    BY DEF Effects
  <2>3. pc[i] = "ok" => runs >= 1
    <3> SUFFICES ASSUME pc[i] = "ok" PROVE runs >= 1
      OBVIOUS
    <3>1. i \in Requests /\ Asks(i, WriteOps) /\ ~IsEmptyBatch(req[i])
      BY DEF IncrementsOf, Asks, WriteOps, IsEmptyBatch
    <3>2. ran[i] # {}
      BY <3>1 DEF IInv, AcknowledgedWriteTookEffect
    <3>3. IsFiniteSet(ran[i])
      BY IncrementsType DEF Kept
    <3>4. runs # 0
      BY <3>2, <3>3, FS_EmptySet
    <3> HIDE DEF runs
    <3> QED  BY <2>1, <3>4
  <2>4. by * runs <= by * sent /\ by * sent \in Nat /\ (runs >= 1 => by <= by * runs)
    <3> HIDE DEF by, runs, sent
    <3> QED  BY <2>1
  <2> HIDE DEF by, runs, sent, given, asked, f
  <2> QED  BY <2>1, <2>2, <2>3, <2>4
<1>3. SumFunctionOnSet(f, S) <= SumFunctionOnSet(asked, S)
  <2> HIDE DEF f, asked, S
  <2> QED  BY <1>1, <1>2, SumMonotone
<1>4. SumFunctionOnSet(given, done) <= SumFunctionOnSet(f, S)
  <2>1. done \in SUBSET S /\ \A i \in done : given[i] \in Nat /\ given[i] <= f[i]
    BY <1>2
  <2> HIDE DEF f, given, done, S
  <2> QED  BY <1>1, <2>1, SumMonotone
<1>5. SumFunctionOnSet(asked, S) \in Nat /\ SumFunctionOnSet(given, done) \in Nat
  <2>1. done \in SUBSET S /\ IsFiniteSet(done)
    BY <1>1, FS_Subset
  <2>2. \A i \in S : asked[i] \in Nat /\ given[i] \in Nat
    BY <1>2
  <2> HIDE DEF given, asked, S
  <2> QED  BY <1>1, <2>1, <2>2, SumType
<1>6. /\ Seed[p] \in Score /\ board[p] # Absent
      /\ board[p] = Plus(Seed[p], SumFunctionOnSet(f, S)) /\ Seed[p] # Absent
  BY LeaderboardAssumption DEF Accounts, Account, Kept, ZSets, Players
<1>7. gain = Plus(Seed[p], SumFunctionOnSet(f, S)) - Seed[p]
  BY <1>6 DEF Points
<1>8. /\ gain <= SumFunctionOnSet(f, S)
      /\ board[p] # Inf => gain = SumFunctionOnSet(f, S)
  <2> DEFINE sum == SumFunctionOnSet(f, S)
  <2>1. sum \in Nat
    BY <1>1
  <2> HIDE DEF sum, gain
  <2> QED  BY <1>6, <1>7, <2>1, ZSetAssumption DEF Plus, Score, Inf, sum
<1>9. /\ board[p] # Inf => gain >= SumFunctionOnSet(given, done)
      /\ gain <= SumFunctionOnSet(asked, S)
  <2>1. gain \in Int
    BY <1>1, <1>6, <1>7, ZSetAssumption DEF Plus, Score, Inf
  <2> HIDE DEF gain, f, given, asked, done, S
  <2> QED  BY <1>1, <1>3, <1>4, <1>5, <1>8, <2>1
<1> QED  BY <1>9 DEF ScoreAddsUp

\* A player who is on the board and is only incremented loses no acknowledged
\* increment (leaderboard_service.py:236 and :257), for any number of requests,
\* amounts, retries and late copies.
THEOREM AcknowledgedIncrements == Spec => []AcknowledgedIncrementsCount
<1>1. IInv /\ Accounts => AcknowledgedIncrementsCount
  BY AccountAddsUp DEF AcknowledgedIncrementsCount, Kept
<1> QED  BY <1>1, Invariance, AccountsAreExact, PTL

-----------------------------------------------------------------------------
\* An acknowledged increment has been added exactly once (api/leaderboard.py:92)
\* unless redis-py has repeated its command (redis_client.py:43,
\* retry_on_timeout), and then no copy of it is left that could add it again: for
\* any number of repetitions the client may make, they are all that breaks the
\* promise.  (A repetition is counted in tries.)
THEOREM AddedOnceUnlessRepeated ==
  Spec => [](\A i \in Requests :
               (Asks(i, {"incr"}) /\ pc[i] = "ok" /\ tries[i] = 0) =>
                 Cardinality(ran[i]) = 1 /\ CopiesOf(i) = {})
<1>1. ASSUME IInv, OnceUnlessRepeated, NEW i \in Requests,
             Asks(i, {"incr"}), pc[i] = "ok", tries[i] = 0
      PROVE  Cardinality(ran[i]) = 1 /\ CopiesOf(i) = {}
  <2>1. ran[i] \subseteq {0} /\ CopiesOf(i) = {}
    BY <1>1 DEF OnceUnlessRepeated
  <2>2. ran[i] # {}
    BY <1>1 DEF IInv, AcknowledgedWriteTookEffect, Asks, WriteOps, IsEmptyBatch
  <2>3. ran[i] = {0}
    BY <2>1, <2>2
  <2> QED  BY <2>1, <2>3, FS_Singleton
<1> DEFINE Once == \A i \in Requests :
                     (Asks(i, {"incr"}) /\ pc[i] = "ok" /\ tries[i] = 0) =>
                       Cardinality(ran[i]) = 1 /\ CopiesOf(i) = {}
<1>2. IInv /\ OnceUnlessRepeated => Once
  BY <1>1
<1> QED  BY <1>2, Invariance, NoTimeoutNoRepeat, PTL
=============================================================================
