-------------------------- MODULE LeaderboardProofs --------------------------
(***************************************************************************)
(* Proofs about the leaderboard, for any players, tenants and segments, any *)
(* traffic, any number of requests in flight and of retries, and whether or *)
(* not the connection loses answers; and, last, that without faults the     *)
(* service implements AtomicBoard.                                          *)
(***************************************************************************)
EXTENDS LeaderboardProperties, LeaderboardRefinement, ZSetLemmas

\* The operation of a request that sends a command.
OpsOf == [cmd \in Commands |->
            CASE cmd \in {"ZADD", "TENANT_SCORE_UPDATE"} -> {"score"}
              [] cmd = "ZADD_BULK" -> {"bulk"}
              [] cmd \in {"ZSCORE", "ZADD_NEW", "ZINCRBY"} -> {"incr"}
              [] cmd \in {"ZCARD", "ZREVRANGE"} -> {"top", "dimension"}
              [] cmd = "RANK" -> {"rank"}
              [] cmd = "ZREM" -> {"delete"}
              [] cmd = "ZREM_BULK" -> {"deletes"}
              [] cmd = "DEL" -> {"reset"}]

\* The command belongs to the request, which is valid.
Fits(cmd, r) ==
  /\ r \in Traffic
  /\ Valid(r)
  /\ r.op \in OpsOf[cmd]
  /\ cmd = "ZADD" => r.tenant = None
  /\ cmd = "TENANT_SCORE_UPDATE" => r.tenant # None
  /\ cmd = "ZADD_NEW" => ValidScore(r.by)

\* A request waits for a command of its own, and has counted before it lists.
Control ==
  \A i \in Requests : pc[i] \in Commands =>
    /\ Fits(pc[i], req[i])
    /\ pc[i] = "ZREVRANGE" => out[i] \in [total : Nat]

\* So do the copies under way, which are all of one command.
CopiesFit ==
  \A m \in limbo :
    /\ Fits(m.cmd, req[m.id])
    /\ pc[m.id] \in Writes => m.cmd = pc[m.id]
    /\ \A n \in limbo : n.id = m.id => n.cmd = m.cmd

\* The attempts that took effect or may still, against the attempts made.
Attempts ==
  \A i \in Requests :
    /\ pc[i] \in Reads \cup {"new", "invalid", "error"} => ran[i] = {} /\ CopiesOf(i) = {}
    /\ pc[i] \in Writes \cup {"ok", "notfound"} => \A m \in CopiesOf(i) : m.try < tries[i]
    /\ pc[i] \in Writes \cup {"notfound"} => \A n \in ran[i] : n < tries[i]
    /\ \A m \in CopiesOf(i) : m.try <= tries[i]

\* Each attempt is executed once: a copy under way has not run yet, and nothing
\* has run that was not sent.
CopiesNotRun ==
  /\ \A m \in limbo : m.try \notin ran[m.id]
  /\ \A i \in Requests : \A n \in ran[i] : n <= tries[i]

IInv == /\ TypeOK
        /\ Control
        /\ CopiesFit
        /\ Attempts
        /\ CopiesNotRun
        /\ AcknowledgedWriteTookEffect
        /\ DimensionMembers

-----------------------------------------------------------------------------
\* A non-empty set of indices has a largest one.
LEMMA LargestIndex ==
  ASSUME NEW n \in Nat, NEW S \in SUBSET (1..n), S # {}
  PROVE  \E k \in S : \A j \in S : j <= k
<1> DEFINE R == {ss \in Nat \X Nat : ss[1] < ss[2]}
           T == {n - k : k \in S}
<1>1. IsWellFoundedOn(R, Nat)
  BY NatLessThanWellFounded DEF OpToRel
<1>2. T \subseteq Nat /\ T # {}
  <2>1. \A k \in S : k \in 1..n /\ n - k \in Nat
    OBVIOUS
  <2>2. PICK k \in S : TRUE
    OBVIOUS
  <2> QED
    BY <2>1, <2>2
<1>3. PICK x \in T : \A y \in T : ~ (<<y, x>> \in R)
  BY <1>1, <1>2, WFMin
<1>4. PICK k \in S : x = n - k
  BY <1>3
<1>5. ASSUME NEW j \in S PROVE j <= k
  <2>1. n - j \in T /\ n - j \in Nat /\ x \in Nat
    BY <1>2
  <2>2. ~ (n - j < x)
    BY <1>3, <2>1
  <2> QED
    BY <1>4, <2>2
<1> QED
  BY <1>5

\* set_scores_bulk sends only valid names and finite scores.
LEMMA ValidatedType ==
  ASSUME NEW r \in Traffic, r.op = "bulk", Valid(r)
  PROVE  /\ DOMAIN Validated(r.scores) \subseteq Players
         /\ \A u \in DOMAIN Validated(r.scores) : Validated(r.scores)[u] \in Finite
<1> DEFINE scores == r.scores
           names == {scores[k][1] : k \in DOMAIN scores}
           Last(u, k) == /\ scores[k][1] = u
                         /\ \A j \in DOMAIN scores : scores[j][1] = u => j <= k
<1>1. scores \in Seq(Names \X Int)
  BY RequestAssumption DEF IsRequest
<1>2. \A k \in DOMAIN scores : scores[k][1] \in Players /\ scores[k][2] \in Finite
  BY DEF Valid, ValidScore
<1>3. Validated(scores) =
        [u \in names |-> scores[CHOOSE k \in DOMAIN scores : Last(u, k)][2]]
  BY DEF Validated
<1>4. ASSUME NEW u \in names
      PROVE  scores[CHOOSE k \in DOMAIN scores : Last(u, k)][2] \in Finite
  <2> DEFINE S == {k \in DOMAIN scores : scores[k][1] = u}
  <2>1. Len(scores) \in Nat /\ DOMAIN scores = 1..Len(scores)
    BY <1>1
  <2>2. S \subseteq 1..Len(scores) /\ S # {}
    BY <2>1
  <2>3. \E k \in S : \A j \in S : j <= k
    BY <2>1, <2>2, LargestIndex
  <2>4. \E k \in DOMAIN scores : Last(u, k)
    BY <2>3
  <2> HIDE DEF Last
  <2>5. (CHOOSE k \in DOMAIN scores : Last(u, k)) \in DOMAIN scores
    BY <2>4
  <2> QED
    BY <1>2, <2>5
<1>5. names \subseteq Players
  BY <1>2
<1> QED
  BY <1>3, <1>4, <1>5

\* The fields of the requests the clients send have their types.
LEMMA FitsType ==
  ASSUME NEW cmd \in Commands, NEW r, Fits(cmd, r)
  PROVE  /\ cmd \in {"ZADD", "TENANT_SCORE_UPDATE"} => r.user \in Players /\ r.score \in Finite
         /\ cmd = "TENANT_SCORE_UPDATE" => ValidTenant(r)
         /\ cmd \in {"ZSCORE", "ZADD_NEW", "ZINCRBY"} => r.user \in Players /\ r.by \in Score
         /\ cmd = "ZADD_NEW" => r.by \in Finite
         /\ cmd = "RANK" => r.user \in Players
         /\ cmd = "ZREM" => r.user \in Players
         /\ cmd = "ZADD_BULK" => r.op = "bulk"
         /\ cmd = "ZREM_BULK" => r.users \subseteq Players
         /\ cmd \in {"ZCARD", "ZREVRANGE"} => r.limit \in Nat
<1>1. IsRequest(r) /\ Valid(r) /\ r.op \in OpsOf[cmd]
  BY RequestAssumption DEF Fits
<1>2. r.op = "incr" => r.by \in Score
  BY <1>1, ZSetAssumption DEF IsRequest, Valid, Score, Inf
<1> QED
  BY <1>1, <1>2
  DEF Fits, OpsOf, Commands, Reads, Writes, IsRequest, Valid, ValidScore

\* The invariant holds initially.
LEMMA InitIInv == Init => IInv
<1> SUFFICES ASSUME Init PROVE IInv
  OBVIOUS
<1>1. TypeOK
  BY LeaderboardAssumption, EmptyZSetType DEF Init, TypeOK, Answers, Nothing, Copies
<1>2. Control /\ CopiesFit /\ Attempts /\ CopiesNotRun /\ AcknowledgedWriteTookEffect
  BY DEF Init, Control, CopiesFit, Attempts, CopiesNotRun, AcknowledgedWriteTookEffect,
         CopiesOf, Commands, Reads, Writes
<1>3. DimensionMembers
  BY DEF Init, DimensionMembers, EmptyZSet, Present
<1> QED
  BY <1>1, <1>2, <1>3 DEF IInv

\* What Redis does for a command that fits its request keeps the boards' types,
\* and puts on a dimension board only members of a tenant.
LEMMA ExecuteLemma ==
  ASSUME TypeOK, DimensionMembers,
         NEW cmd \in Writes, NEW r, Fits(cmd, r), Execute(cmd, r)
  PROVE  /\ board' \in ZSets
         /\ dims' \in [Segments -> ZSets]
         /\ members' \in [Tenants -> SUBSET Players]
         /\ DimensionMembers'
<1> USE FitsType DEF Writes, Commands
<1>0. /\ board \in ZSets
      /\ dims \in [Segments -> ZSets]
      /\ members \in [Tenants -> SUBSET Players]
  BY DEF TypeOK
<1>1. CASE cmd = "TENANT_SCORE_UPDATE"
  <2> DEFINE new == [p \in {r.user} |-> r.score]
             seg == {r.industry, r.region, r.size}
  <2>1. r.user \in Players /\ r.score \in Score /\ r.tenant \in Tenants
    BY <1>1, ScoreType DEF ValidTenant
  <2>2. \A z \in ZSets : ZAdd(z, new) \in ZSets
    BY <2>1, ZAddType
  <2>3. /\ board' = ZAdd(board, new)
        /\ dims' = [s \in Segments |-> IF s \in seg THEN ZAdd(dims[s], new) ELSE dims[s]]
        /\ members' = [members EXCEPT ![r.tenant] = @ \cup {r.user}]
    BY <1>1 DEF Execute, TenantScoreUpdate
  <2>4. /\ board' \in ZSets
        /\ dims' \in [Segments -> ZSets]
        /\ members' \in [Tenants -> SUBSET Players]
    BY <1>0, <2>1, <2>2, <2>3
  <2>5. ASSUME NEW s \in Segments, NEW p \in Present(dims'[s])
        PROVE  \E t \in Tenants : p \in members'[t]
    <3>1. p = r.user \/ p \in Present(dims[s])
      BY <2>3, <2>5 DEF Present, ZAdd
    <3> QED
      BY <1>0, <2>1, <2>3, <3>1 DEF DimensionMembers
  <2> QED
    BY <2>4, <2>5 DEF DimensionMembers
<1>2. CASE cmd # "TENANT_SCORE_UPDATE"
  <2>1. board' = BoardAfter(cmd, r) /\ UNCHANGED <<dims, members>>
    BY <1>2 DEF Execute
  <2>2. board' \in ZSets
    <3>1. CASE cmd = "ZADD"
      BY <1>0, <2>1, <3>1, ScoreType, ZAddType DEF BoardAfter
    <3>2. CASE cmd = "ZADD_BULK"
      <4>1. \A u \in DOMAIN Validated(r.scores) : Validated(r.scores)[u] \in Score
        BY <3>2, ValidatedType, ScoreType DEF Fits
      <4> QED
        BY <1>0, <2>1, <3>2, <4>1, ZAddType DEF BoardAfter
    <3>3. CASE cmd = "ZADD_NEW"
      BY <1>0, <2>1, <3>3, ScoreType, ZAddType DEF BoardAfter
    <3>4. CASE cmd = "ZINCRBY"
      BY <1>0, <2>1, <3>4, ZIncrByType DEF BoardAfter, Players
    <3>5. CASE cmd \in {"ZREM", "ZREM_BULK", "DEL"}
      BY <1>0, <2>1, <3>5, ZRemType, EmptyZSetType DEF BoardAfter
    <3> QED
      BY <1>2, <3>1, <3>2, <3>3, <3>4, <3>5
  <2> QED
    BY <1>0, <2>1, <2>2 DEF DimensionMembers
<1> QED
  BY <1>1, <1>2

-----------------------------------------------------------------------------
\* A write that is executed in time and answered keeps the invariant.
LEMMA WriteAnsweredKeepsIInv ==
  ASSUME IInv, NEW i \in Requests, NEW cmd \in Writes,
         NEW outcome \in {"ok", "notfound"}, NEW answer \in Answers,
         WriteAnswered(i, cmd, outcome, answer),
         outcome = "ok" <=> TakesEffect(cmd, req[i])
  PROVE  IInv'
<1> DEFINE r == req[i]
<1> USE DEF IInv
<1>1. /\ pc[i] = cmd /\ pc[i] \in Commands
      /\ Execute(cmd, r)
      /\ ran' = [ran EXCEPT ![i] = IF TakesEffect(cmd, r) THEN @ \cup {tries[i]} ELSE @]
      /\ pc' = [pc EXCEPT ![i] = outcome]
      /\ out' = [out EXCEPT ![i] = answer]
      /\ UNCHANGED <<req, tries, limbo>>
  BY DEF WriteAnswered, Answered, Write, Finish, Commands
<1>2. Fits(cmd, r)
  BY <1>1 DEF Control
<1>3. /\ board' \in ZSets
      /\ dims' \in [Segments -> ZSets]
      /\ members' \in [Tenants -> SUBSET Players]
      /\ DimensionMembers'
  BY <1>1, <1>2, ExecuteLemma
<1>4. TypeOK'
  <2>1. ran' \in [Requests -> SUBSET (0..Retries)]
    BY <1>1 DEF TypeOK
  <2>2. pc' \in [Requests -> {"new"} \cup Commands \cup Outcomes]
    BY <1>1 DEF TypeOK, Outcomes, Failures
  <2>3. out' \in [Requests -> Answers]
    BY <1>1 DEF TypeOK
  <2> QED
    BY <1>1, <1>3, <2>1, <2>2, <2>3 DEF TypeOK
<1>5. Control'
  BY <1>1 DEF Control, TypeOK, Commands, Reads, Writes
<1>6. CopiesFit'
  BY <1>1 DEF CopiesFit, TypeOK, Copies, Writes
<1>7. tries[i] \in Nat /\ \A m \in CopiesOf(i) : m.try < tries[i]
  BY <1>1, LeaderboardAssumption DEF Attempts, TypeOK
<1>8. \A j \in Requests : CopiesOf(j)' = CopiesOf(j)
  BY <1>1 DEF CopiesOf
<1>9. Attempts'
  BY <1>1, <1>7, <1>8 DEF Attempts, TypeOK, Reads, Writes
<1>10. CopiesNotRun'
  <2>1. \A m \in limbo : m.try \notin ran'[m.id]
    BY <1>1, <1>7 DEF CopiesNotRun, CopiesOf, TypeOK, Copies
  <2>2. \A j \in Requests : \A n \in ran'[j] : n <= tries[j]
    BY <1>1, <1>7 DEF CopiesNotRun, TypeOK
  <2> QED
    BY <1>1, <2>1, <2>2 DEF CopiesNotRun
<1>11. AcknowledgedWriteTookEffect'
  BY <1>1 DEF AcknowledgedWriteTookEffect, Asks, TypeOK
<1> QED
  BY <1>3, <1>4, <1>5, <1>6, <1>9, <1>10, <1>11

\* So does a read that is answered: it moves its request, and no other, to its
\* next command or to an outcome.
LEMMA ReadAnsweredKeepsIInv ==
  ASSUME IInv, NEW i \in Requests, pc[i] \in Reads,
         NEW to \in {"ZINCRBY", "ZADD_NEW", "ZREVRANGE", "ok", "notfound", "invalid"},
         to \in Commands => Fits(to, req[i]),
         to = "ok" => req[i].op \notin WriteOps,
         pc' = [pc EXCEPT ![i] = to],
         tries' = tries \/ tries' = [tries EXCEPT ![i] = 0],
         out' \in [Requests -> Answers],
         \A j \in Requests : j # i => out'[j] = out[j],
         to = "ZREVRANGE" => out'[i] \in [total : Nat],
         UNCHANGED <<redis, req, limbo, ran>>
  PROVE  IInv'
<1> USE DEF IInv, redis
<1>1. ran[i] = {} /\ CopiesOf(i) = {}
  BY DEF Attempts
<1>2. tries' \in [Requests -> 0..Retries] /\ \A j \in Requests : j # i => tries'[j] = tries[j]
  BY LeaderboardAssumption DEF TypeOK
<1>3. TypeOK'
  BY <1>2 DEF TypeOK, Commands, Reads, Writes, Outcomes, Failures
<1>4. Control'
  BY DEF Control, TypeOK, Commands, Reads, Writes
<1>5. CopiesFit'
  BY <1>1 DEF CopiesFit, CopiesOf, TypeOK, Copies
<1>6. \A j \in Requests : CopiesOf(j)' = CopiesOf(j)
  BY DEF CopiesOf
<1>7. Attempts'
  BY <1>1, <1>2, <1>6 DEF Attempts, TypeOK
<1>8. CopiesNotRun'
  BY <1>1, <1>2 DEF CopiesNotRun, CopiesOf, TypeOK
<1>9. AcknowledgedWriteTookEffect' /\ DimensionMembers'
  BY DEF AcknowledgedWriteTookEffect, Asks, TypeOK, DimensionMembers, WriteOps
<1> QED
  BY <1>3, <1>4, <1>5, <1>7, <1>8, <1>9

\* A command whose answer does not come leaves at most one more copy, of the
\* attempt just made.
LEMMA AbandonedKeepsIInv ==
  ASSUME IInv, NEW i \in Requests, Abandoned(i),
         \/ Resend(i)
         \/ \E failure \in {"timeout", "unavailable"} :
              Finish(i, failure, Nothing) /\ UNCHANGED tries
  PROVE  IInv'
<1> DEFINE copy == [id |-> i, cmd |-> pc[i], try |-> tries[i]]
<1> USE DEF IInv
<1>1. /\ pc[i] \in Commands
      /\ UNCHANGED <<board, dims, members, req, ran>>
      /\ limbo' = IF pc[i] \in Writes THEN limbo \cup {copy} ELSE limbo
  BY DEF Abandoned, redis
<1>2. /\ tries[i] \in 0..Retries
      /\ copy.id = i /\ copy.cmd = pc[i] /\ copy.try = tries[i]
      /\ pc[i] \in Writes => copy \in Copies
  BY DEF TypeOK, Copies
<1>3. \/ /\ UNCHANGED <<pc, out>>
         /\ tries[i] < Retries
         /\ tries' = [tries EXCEPT ![i] = @ + 1]
      \/ /\ pc' = [pc EXCEPT ![i] = "timeout"] \/ pc' = [pc EXCEPT ![i] = "unavailable"]
         /\ out' = [out EXCEPT ![i] = Nothing]
         /\ UNCHANGED tries
  BY DEF Resend, Finish
<1>4. TypeOK'
  BY <1>1, <1>2, <1>3, LeaderboardAssumption DEF TypeOK, Outcomes, Failures, Answers
<1>5. Control'
  BY <1>1, <1>3 DEF Control, TypeOK, Commands, Reads, Writes
<1>6. CopiesFit'
  <2>1. pc[i] \in Writes => \A n \in limbo : n.id = i => n.cmd = pc[i]
    BY DEF CopiesFit
  <2>2. \A m \in limbo' : Fits(m.cmd, req[m.id])
    BY <1>1, <1>2 DEF CopiesFit, Control
  <2>3. \A m, n \in limbo' : n.id = m.id => n.cmd = m.cmd
    BY <1>1, <1>2, <2>1 DEF CopiesFit
  <2>4. \A m \in limbo' : pc'[m.id] \in Writes => m.cmd = pc'[m.id]
    <3> SUFFICES ASSUME NEW m \in limbo', pc'[m.id] \in Writes PROVE m.cmd = pc'[m.id]
      OBVIOUS
    <3>1. m.id \in Requests /\ pc'[m.id] = pc[m.id]
      BY <1>1, <1>2, <1>3 DEF TypeOK, Copies, Writes
    <3> QED
      BY <1>1, <1>2, <3>1 DEF CopiesFit
  <2> QED
    BY <1>1, <2>2, <2>3, <2>4 DEF CopiesFit
<1>7. /\ \A j \in Requests \ {i} : CopiesOf(j)' = CopiesOf(j)
      /\ CopiesOf(i)' \subseteq CopiesOf(i) \cup {copy}
      /\ pc[i] \notin Writes => CopiesOf(i)' = CopiesOf(i)
  BY <1>1, <1>2 DEF CopiesOf
<1>8. Attempts'
  BY <1>1, <1>2, <1>3, <1>7, LeaderboardAssumption
  DEF Attempts, TypeOK, Copies, CopiesOf, Commands, Reads, Writes
<1>9. CopiesNotRun'
  <2>1. pc[i] \in Writes => tries[i] \notin ran[i]
    BY <1>2, LeaderboardAssumption DEF Attempts
  <2>2. \A m \in limbo' : m.try \notin ran[m.id]
    BY <1>1, <1>2, <2>1 DEF CopiesNotRun
  <2>3. \A j \in Requests : \A n \in ran[j] : n <= tries'[j]
    BY <1>3, LeaderboardAssumption DEF CopiesNotRun, TypeOK
  <2> QED
    BY <1>1, <2>2, <2>3 DEF CopiesNotRun
<1>10. AcknowledgedWriteTookEffect' /\ DimensionMembers'
  BY <1>1, <1>3 DEF AcknowledgedWriteTookEffect, Asks, TypeOK, DimensionMembers,
                     Commands, Reads, Writes
<1> QED
  BY <1>4, <1>5, <1>6, <1>8, <1>9, <1>10

\* A copy that Redis executes late takes effect for the first time.
LEMMA ExecuteLateKeepsIInv ==
  ASSUME IInv, NEW m \in limbo, ExecuteLate(m)
  PROVE  IInv'
<1> USE DEF IInv
<1>1. /\ limbo' = limbo \ {m}
      /\ Execute(m.cmd, req[m.id])
      /\ ran' = [ran EXCEPT ![m.id] = IF TakesEffect(m.cmd, req[m.id])
                                      THEN @ \cup {m.try} ELSE @]
      /\ UNCHANGED <<req, pc, tries, out>>
  BY DEF ExecuteLate, Write, locals
<1>2. m.id \in Requests /\ m.cmd \in Writes /\ m.try \in 0..Retries /\ m \in Copies
  BY DEF TypeOK, Copies
<1>3. /\ board' \in ZSets
      /\ dims' \in [Segments -> ZSets]
      /\ members' \in [Tenants -> SUBSET Players]
      /\ DimensionMembers'
  BY <1>1, <1>2, ExecuteLemma DEF CopiesFit
<1>4. ran' \in [Requests -> SUBSET (0..Retries)]
  BY <1>1, <1>2 DEF TypeOK
<1>5. TypeOK'
  BY <1>1, <1>3, <1>4 DEF TypeOK
<1>6. Control' /\ CopiesFit'
  BY <1>1 DEF Control, CopiesFit
<1>7. m \in CopiesOf(m.id) /\ \A j \in Requests : CopiesOf(j)' \subseteq CopiesOf(j)
  BY <1>1 DEF CopiesOf
<1>8. Attempts'
  BY <1>1, <1>2, <1>7 DEF Attempts, TypeOK, CopiesOf
<1>9. CopiesNotRun'
  <2>1. ASSUME NEW n \in limbo', n.id = m.id PROVE n.try # m.try
    <3>1. n \in limbo /\ n # m /\ n.cmd = m.cmd
      BY <1>1, <2>1 DEF CopiesFit
    <3>2. n \in Copies
      BY <3>1 DEF TypeOK
    <3> QED
      BY <1>2, <2>1, <3>1, <3>2 DEF Copies
  <2>2. \A n \in limbo' : n.try \notin ran'[n.id]
    BY <1>1, <1>2, <2>1 DEF CopiesNotRun, TypeOK, Copies
  <2>3. \A j \in Requests : \A n \in ran'[j] : n <= tries[j]
    BY <1>1, <1>2, <1>7 DEF CopiesNotRun, Attempts, TypeOK
  <2> QED
    BY <1>1, <2>2, <2>3 DEF CopiesNotRun
<1>10. AcknowledgedWriteTookEffect'
  BY <1>1, <1>2 DEF AcknowledgedWriteTookEffect, Asks, TypeOK
<1> QED
  BY <1>3, <1>5, <1>6, <1>8, <1>9, <1>10

\* A request that arrives has no attempts yet, whether it is accepted or
\* answered at once.
LEMMA ArriveKeepsIInv ==
  ASSUME IInv, NEW i \in Requests, NEW r \in Traffic,
         pc[i] = "new",
         req' = [req EXCEPT ![i] = r],
         UNCHANGED <<redis, tries, limbo, ran>>,
         \/ /\ pc' = [pc EXCEPT ![i] = FirstCommand(r)]
            /\ FirstCommand(r) \in Commands \ {"ZREVRANGE"}
            /\ Fits(FirstCommand(r), r)
            /\ UNCHANGED out
         \/ \E outcome \in {"invalid", "ok", "error"}, answer \in Answers :
              Finish(i, outcome, answer) /\ (outcome = "ok" => IsEmptyBatch(r))
  PROVE  IInv'
<1> USE DEF IInv, redis
<1>1. ran[i] = {} /\ CopiesOf(i) = {}
  BY DEF Attempts
<1>2. pc'[i] \in Commands => pc' = [pc EXCEPT ![i] = FirstCommand(r)] /\ UNCHANGED out
  BY DEF Finish, TypeOK, Commands, Reads, Writes
<1>3. /\ pc' \in [Requests -> {"new"} \cup Commands \cup Outcomes]
      /\ \A j \in Requests \ {i} : pc'[j] = pc[j] /\ out'[j] = out[j] /\ req'[j] = req[j]
      /\ out' \in [Requests -> Answers]
      /\ req'[i] = r
      /\ pc'[i] = "ok" => IsEmptyBatch(r)
      /\ pc'[i] \in (Commands \ {"ZREVRANGE"}) \cup {"invalid", "ok", "error"}
      /\ pc'[i] \in Commands => Fits(pc'[i], r)
  BY DEF Finish, TypeOK, Outcomes, Failures, Commands, Reads, Writes
<1>4. TypeOK'
  BY <1>3 DEF TypeOK
<1>5. Control'
  BY <1>3 DEF Control
<1>6. CopiesFit'
  <2>1. \A m \in limbo : m.id \in Requests \ {i}
    BY <1>1 DEF CopiesOf, TypeOK, Copies
  <2> QED
    BY <1>3, <2>1 DEF CopiesFit
<1>7. \A j \in Requests : CopiesOf(j)' = CopiesOf(j)
  BY DEF CopiesOf
<1>8. Attempts' /\ CopiesNotRun'
  BY <1>1, <1>3, <1>7 DEF Attempts, CopiesNotRun
<1>9. AcknowledgedWriteTookEffect' /\ DimensionMembers'
  <2>1. \A j \in Requests \ {i} : Asks(j, WriteOps)' <=> Asks(j, WriteOps)
    BY <1>3 DEF Asks
  <2> QED
    BY <1>3, <2>1 DEF AcknowledgedWriteTookEffect, DimensionMembers
<1> QED
  BY <1>4, <1>5, <1>6, <1>8, <1>9

\* Every step keeps the invariant.
LEMMA NextIInv == IInv /\ [Next]_vars => IInv'
<1> SUFFICES ASSUME IInv, [Next]_vars PROVE IInv'
  OBVIOUS
<1>1. ASSUME NEW i \in Requests, NEW r \in Traffic, Accept(i, r) PROVE IInv'
  <2>1. FirstCommand(r) \in Commands \ {"ZREVRANGE"} /\ Fits(FirstCommand(r), r)
    BY <1>1, RequestAssumption
    DEF Accept, Consent, FirstCommand, Fits, OpsOf, IsRequest, Ops, Commands, Reads, Writes
  <2> QED
    BY <1>1, <2>1, ArriveKeepsIInv DEF Accept
<1>2. ASSUME NEW i \in Requests, NEW r \in Traffic,
             Refuse(i, r) \/ NothingToDo(i, r) \/ OptInOrOut(i, r)
      PROVE  IInv'
  <2>1. Nothing \in Answers /\ [count |-> 0] \in Answers
    BY DEF Answers
  <2> QED
    BY <1>2, <2>1, ArriveKeepsIInv DEF Refuse, NothingToDo, OptInOrOut, Dismiss
<1>3. ASSUME NEW i \in Requests, Respond(i) PROVE IInv'
  <2> DEFINE r == req[i]
             u == req[i].user
  <2>0. /\ pc[i] \in Commands => Fits(pc[i], r)
        /\ board \in ZSets
        /\ out \in [Requests -> Answers]
        /\ Nothing \in Answers
    BY DEF IInv, Control, TypeOK, Answers
  <2>1. CASE SetScore(i) \/ SetTenantScore(i)
    <3>1. r.score \in Score
      BY <2>0, <2>1, FitsType, ScoreType
      DEF SetScore, SetTenantScore, WriteAnswered, Answered, Commands, Writes
    <3>2. [score |-> r.score] \in Answers
      BY <3>1 DEF Answers
    <3> QED
      BY <2>1, <3>2, WriteAnsweredKeepsIInv DEF SetScore, SetTenantScore, TakesEffect, Writes
  <2>2. CASE SetScoresBulk(i)
    <3>1. Cardinality(DOMAIN Validated(r.scores)) \in Nat
      BY <2>0, <2>2, FitsType, ValidatedType, CountType
      DEF SetScoresBulk, WriteAnswered, Answered, Commands, Writes, Players, Fits
    <3>2. [count |-> Cardinality(DOMAIN Validated(r.scores))] \in Answers
      BY <3>1 DEF Answers
    <3> QED
      BY <2>2, <3>2, WriteAnsweredKeepsIInv DEF SetScoresBulk, TakesEffect, Writes
  <2>3. CASE CreateScore(i)
    <3>1. r.by \in Score
      BY <2>0, <2>3, FitsType DEF CreateScore, WriteAnswered, Answered, Commands, Writes
    <3>2. [score |-> r.by] \in Answers
      BY <3>1 DEF Answers
    <3> QED
      BY <2>3, <3>2, WriteAnsweredKeepsIInv DEF CreateScore, TakesEffect, Writes
  <2>4. CASE AddScore(i)
    <3>1. u \in Players /\ r.by \in Score
      BY <2>0, <2>4, FitsType DEF AddScore, WriteAnswered, Answered, Commands, Writes
    <3>2. [score |-> ZIncrBy(board, u, r.by)[u]] \in Answers
      BY <2>0, <3>1, ZIncrByType DEF Answers, Players
    <3> QED
      BY <2>4, <3>2, WriteAnsweredKeepsIInv DEF AddScore, TakesEffect, Writes
  <2>5. CASE DeleteUser(i)
    BY <2>0, <2>5, WriteAnsweredKeepsIInv DEF DeleteUser, TakesEffect, Writes
  <2>6. CASE DeleteUsers(i)
    <3>1. Cardinality(r.users \cap Present(board)) \in Nat
      BY <2>0, PresentType, CountType
    <3>2. [count |-> Cardinality(r.users \cap Present(board))] \in Answers
      BY <3>1 DEF Answers
    <3> QED
      BY <2>6, <3>2, WriteAnsweredKeepsIInv DEF DeleteUsers, TakesEffect, Writes
  <2>7. CASE ResetLeaderboard(i)
    BY <2>0, <2>7, WriteAnsweredKeepsIInv DEF ResetLeaderboard, TakesEffect, Writes
  <2>8. CASE ReadScore(i)
    <3> DEFINE to == IF board[u] # Absent THEN "ZINCRBY"
                     ELSE IF ValidScore(r.by) THEN "ZADD_NEW" ELSE "invalid"
    <3>1. /\ pc[i] = "ZSCORE" /\ pc' = [pc EXCEPT ![i] = to]
          /\ tries' = [tries EXCEPT ![i] = 0]
          /\ UNCHANGED <<redis, req, limbo, ran, out>>
      BY <2>8 DEF ReadScore, Answered
    <3>2. to \in Commands => Fits(to, r)
      BY <2>0, <3>1 DEF Fits, OpsOf, Commands, Reads, Writes
    <3> HIDE DEF to
    <3>3. to \in {"ZINCRBY", "ZADD_NEW", "invalid"}
      BY DEF to
    <3> QED
      BY <2>0, <3>1, <3>2, <3>3, ReadAnsweredKeepsIInv DEF Reads
  <2>9. CASE CountPlayers(i)
    <3>1. [total |-> ZCard(board)] \in [total : Nat]
      BY <2>0, PresentType, CountType DEF ZCard
    <3>2. /\ pc[i] = "ZCARD" /\ pc' = [pc EXCEPT ![i] = "ZREVRANGE"]
          /\ tries' = [tries EXCEPT ![i] = 0]
          /\ out' = [out EXCEPT ![i] = [total |-> ZCard(board)]]
          /\ UNCHANGED <<redis, req, limbo, ran>>
      BY <2>9 DEF CountPlayers, Answered, Finish
    <3>3. Fits("ZREVRANGE", r)
      BY <2>0, <3>2 DEF Fits, OpsOf, Commands, Reads, Writes
    <3>4. out' \in [Requests -> Answers] /\ out'[i] \in [total : Nat]
      BY <2>0, <3>1, <3>2 DEF Answers
    <3> QED
      BY <3>2, <3>3, <3>4, ReadAnsweredKeepsIInv DEF Reads
  <2>10. CASE ListPlayers(i)
    <3> DEFINE answer == [total |-> out[i].total, entries |-> ZRevRange(board, r.limit)]
    <3>1. /\ pc[i] = "ZREVRANGE" /\ pc' = [pc EXCEPT ![i] = "ok"]
          /\ out' = [out EXCEPT ![i] = answer]
          /\ UNCHANGED <<redis, req, tries, limbo, ran>>
      BY <2>10 DEF ListPlayers, Answered, Finish
    <3>2. out[i].total \in Nat
      BY <3>1 DEF IInv, Control, Commands, Reads
    <3>3. ZRevRange(board, r.limit) \in SUBSET Entries
      BY <2>0, ZRevRangeType DEF Entries, Players
    <3>4. answer \in Answers
      BY <3>2, <3>3 DEF Answers
    <3>5. r.op \notin WriteOps
      BY <2>0, <3>1 DEF Fits, OpsOf, Commands, Reads, Writes, WriteOps
    <3> HIDE DEF answer
    <3>6. out' \in [Requests -> Answers]
      BY <2>0, <3>1, <3>4
    <3> QED
      BY <3>1, <3>5, <3>6, ReadAnsweredKeepsIInv DEF Reads, Commands, Writes
  <2>11. CASE GetRank(i)
    <3> DEFINE answer == [score |-> board[u], rank |-> ZRevRank(board, u) + 1]
    <3>1. /\ pc[i] = "RANK"
          /\ UNCHANGED <<redis, req, tries, limbo, ran>>
          /\ \/ /\ u \in Present(board)
                /\ pc' = [pc EXCEPT ![i] = "ok"]
                /\ out' = [out EXCEPT ![i] = answer]
             \/ /\ pc' = [pc EXCEPT ![i] = "notfound"]
                /\ out' = [out EXCEPT ![i] = Nothing]
      BY <2>11 DEF GetRank, Answered, Finish
    <3>2. ZRevRank(board, u) + 1 \in Nat \ {0}
      BY <2>0, ZRevRankType
    <3>3. u \in Present(board) => answer \in Answers
      BY <2>0, <3>2, PresentType DEF Answers
    <3>4. r.op \notin WriteOps
      BY <2>0, <3>1 DEF Fits, OpsOf, Commands, Reads, Writes, WriteOps
    <3> HIDE DEF answer
    <3>5. out' \in [Requests -> Answers] /\ \A j \in Requests : j # i => out'[j] = out[j]
      BY <2>0, <3>1, <3>3
    <3> QED
      BY <3>1, <3>4, <3>5, ReadAnsweredKeepsIInv DEF Reads, Commands, Writes
  <2> QED
    BY <1>3, <2>1, <2>2, <2>3, <2>4, <2>5, <2>6, <2>7, <2>8, <2>9, <2>10, <2>11 DEF Respond
<1>4. ASSUME NEW i \in Requests, Fail(i) PROVE IInv'
  BY <1>4, AbandonedKeepsIInv DEF Fail, Resend, GiveUp, LoseConnection
<1>5. ASSUME NEW m \in limbo, ExecuteLate(m) PROVE IInv'
  BY <1>5, ExecuteLateKeepsIInv
<1>6. CASE UNCHANGED vars
  BY <1>6 DEF vars, redis, locals, IInv, TypeOK, Control, CopiesFit, Attempts, CopiesOf,
              CopiesNotRun, AcknowledgedWriteTookEffect, Asks, DimensionMembers
<1> QED
  BY <1>1, <1>2, <1>3, <1>4, <1>5, <1>6 DEF Next, Arrive

\* The invariant holds in every reachable state.
THEOREM Invariance == Spec => []IInv
  BY InitIInv, NextIInv, PTL DEF Spec

\* The variables keep their types: the boards hold scores of the right range,
\* whatever the requests, the retries and the copies that arrive late.
THEOREM TypeCorrect == Spec => []TypeOK
<1>1. IInv => TypeOK
  BY DEF IInv
<1> QED
  BY <1>1, Invariance, PTL

\* A write answered with success has been executed.
THEOREM AcknowledgedWrites == Spec => []AcknowledgedWriteTookEffect
<1>1. IInv => AcknowledgedWriteTookEffect
  BY DEF IInv
<1> QED
  BY <1>1, Invariance, PTL

\* A request refused as invalid never writes.
THEOREM RefusedRequests == Spec => []RefusedRequestNeverWrites
<1>1. IInv => RefusedRequestNeverWrites
  BY DEF IInv, RefusedRequestNeverWrites, Attempts
<1> QED
  BY <1>1, Invariance, PTL

\* Without a timeout, an operation takes effect at most once, and a delete
\* that answers 404 has removed nobody.
THEOREM NoTimeoutNoRepeat == Spec => []OnceUnlessRepeated
<1>1. IInv => OnceUnlessRepeated
  <2> SUFFICES ASSUME IInv, NEW i \in Requests, pc[i] \in {"ok", "notfound"}, tries[i] = 0
               PROVE  /\ CopiesOf(i) = {}
                      /\ ran[i] \subseteq {0}
                      /\ pc[i] = "notfound" => ran[i] = {}
    BY DEF OnceUnlessRepeated
  <2> USE DEF IInv
  <2>1. CopiesOf(i) = {}
    <3>1. \A m \in CopiesOf(i) : m.try < 0 /\ m.try \in 0..Retries
      BY DEF Attempts, CopiesOf, TypeOK, Copies
    <3> QED
      BY <3>1, LeaderboardAssumption
  <2>2. \A n \in ran[i] : n \in 0..Retries /\ n <= 0 /\ (pc[i] = "notfound" => n < 0)
    BY DEF Attempts, CopiesNotRun, TypeOK
  <2> QED
    BY <2>1, <2>2, LeaderboardAssumption
<1> QED
  BY <1>1, Invariance, PTL

\* Every player on an industry, region or size board is a tenant's member.
THEOREM DimensionsHoldMembers == Spec => []DimensionMembers
<1>1. IInv => DimensionMembers
  BY DEF IInv
<1> QED
  BY <1>1, Invariance, PTL

-----------------------------------------------------------------------------
\* The boards change only when Redis executes a write that fits its request.
LEMMA StepOnBoards ==
  ASSUME IInv, [Next]_vars
  PROVE  \/ UNCHANGED redis
         \/ \E cmd \in Writes, i \in Requests : Fits(cmd, req[i]) /\ Execute(cmd, req[i])
<1>1. ASSUME NEW i \in Requests, NEW r \in Traffic,
             Accept(i, r) \/ Refuse(i, r) \/ NothingToDo(i, r) \/ OptInOrOut(i, r)
      PROVE  UNCHANGED redis
  BY <1>1 DEF Accept, Refuse, NothingToDo, OptInOrOut, Dismiss
<1>2. ASSUME NEW i \in Requests, NEW cmd \in Writes, NEW outcome, NEW answer,
             WriteAnswered(i, cmd, outcome, answer)
      PROVE  Fits(cmd, req[i]) /\ Execute(cmd, req[i])
  BY <1>2 DEF WriteAnswered, Answered, Write, IInv, Control, Commands
<1>3. ASSUME NEW i \in Requests, Respond(i)
      PROVE  UNCHANGED redis \/ \E cmd \in Writes : Fits(cmd, req[i]) /\ Execute(cmd, req[i])
  <2>1. CASE ReadScore(i) \/ CountPlayers(i) \/ ListPlayers(i) \/ GetRank(i)
    BY <2>1 DEF ReadScore, CountPlayers, ListPlayers, GetRank
  <2>2. CASE SetScore(i) \/ SetTenantScore(i) \/ SetScoresBulk(i) \/ CreateScore(i)
    BY <1>2, <2>2 DEF SetScore, SetTenantScore, SetScoresBulk, CreateScore, Writes
  <2>3. CASE AddScore(i) \/ DeleteUser(i) \/ DeleteUsers(i) \/ ResetLeaderboard(i)
    BY <1>2, <2>3 DEF AddScore, DeleteUser, DeleteUsers, ResetLeaderboard, Writes
  <2> QED
    BY <1>3, <2>1, <2>2, <2>3 DEF Respond
<1>4. ASSUME NEW i \in Requests, Fail(i) PROVE UNCHANGED redis
  BY <1>4 DEF Fail, Resend, GiveUp, LoseConnection, Abandoned
<1>5. ASSUME NEW m \in limbo, ExecuteLate(m)
      PROVE  \E cmd \in Writes, i \in Requests : Fits(cmd, req[i]) /\ Execute(cmd, req[i])
  BY <1>5 DEF ExecuteLate, Write, IInv, CopiesFit, TypeOK, Copies
<1> QED
  BY <1>1, <1>3, <1>4, <1>5 DEF Next, Arrive, vars

\* A write changes only the scores of the players its request touches.
LEMMA WriteTouches ==
  ASSUME NEW cmd \in Writes, NEW r, Fits(cmd, r), Execute(cmd, r),
         cmd # "TENANT_SCORE_UPDATE",
         NEW p \in Players, p \notin Touches(r)
  PROVE  board'[p] = board[p] /\ UNCHANGED dims
<1>1. board' = BoardAfter(cmd, r) /\ UNCHANGED dims
  BY DEF Execute
<1>2. p \in Members
  BY DEF Players
<1>3. CASE cmd \in {"ZADD", "ZADD_NEW", "ZREM", "ZINCRBY"}
  <2>1. p # r.user
    BY <1>3 DEF Fits, OpsOf, Commands, Writes, Touches
  <2> QED
    BY <1>1, <1>2, <1>3, <2>1 DEF BoardAfter, ZAdd, ZRem, ZIncrBy
<1>4. CASE cmd = "ZADD_BULK"
  BY <1>1, <1>2, <1>4 DEF BoardAfter, ZAdd, Fits, OpsOf, Commands, Writes, Touches
<1>5. CASE cmd \in {"ZREM_BULK", "DEL"}
  BY <1>1, <1>2, <1>5 DEF BoardAfter, ZRem, Fits, OpsOf, Commands, Writes, Touches
<1> QED
  BY <1>3, <1>4, <1>5 DEF Writes

\* A player whose score only tenants set has the same score on the global board
\* and on an industry, a region and a size board: the four ZADDs of a pipeline
\* are executed together, also when a copy of it arrives late.
THEOREM TenantsMirrored == Spec => []TenantMirror
<1>1. Init => TenantMirror
  BY DEF Init, TenantMirror, Present
<1>2. IInv /\ TenantMirror /\ [Next]_vars => TenantMirror'
  <2> SUFFICES ASSUME IInv, TenantMirror, [Next]_vars PROVE TenantMirror'
    OBVIOUS
  <2>1. CASE UNCHANGED redis
    BY <2>1 DEF redis, TenantMirror
  <2>2. ASSUME NEW cmd \in Writes, NEW i \in Requests, Fits(cmd, req[i]), Execute(cmd, req[i])
        PROVE  TenantMirror'
    <3> DEFINE r == req[i]
               new == [q \in {r.user} |-> r.score]
               Mirrored(d, b, p) == \E x \in Industries, y \in Regions, z \in Sizes :
                                      d[x][p] = b[p] /\ d[y][p] = b[p] /\ d[z][p] = b[p]
    <3> SUFFICES ASSUME NEW p \in Present(board'), Seed[p] = Absent, Only(p, SetByTenant)
                 PROVE  Mirrored(dims', board', p)
      BY DEF TenantMirror
    <3>1. p \in Players /\ p \in Members /\ board \in ZSets
      BY DEF Present, Players, IInv, TypeOK
    <3>2. p \in Present(board) => Mirrored(dims, board, p)
      BY DEF TenantMirror
    <3>3. CASE cmd # "TENANT_SCORE_UPDATE"
      <4>1. p \notin Touches(r)
        BY <2>2, <3>3 DEF Only, SetByTenant, Fits, OpsOf, Commands, Writes
      <4>2. board'[p] = board[p] /\ UNCHANGED dims
        BY <2>2, <3>1, <3>3, <4>1, WriteTouches
      <4> QED
        BY <3>1, <3>2, <4>2 DEF Present
    <3>4. CASE cmd = "TENANT_SCORE_UPDATE"
      <4>1. /\ r.user \in Players /\ r.score \in Finite
            /\ r.industry \in Industries /\ r.region \in Regions /\ r.size \in Sizes
        BY <2>2, <3>4, FitsType DEF Commands, ValidTenant
      <4>2. /\ board' = ZAdd(board, new)
            /\ dims' = [s \in Segments |-> IF s \in {r.industry, r.region, r.size}
                                           THEN ZAdd(dims[s], new) ELSE dims[s]]
        BY <2>2, <3>4 DEF Execute, TenantScoreUpdate
      <4>3. CASE p = r.user
        BY <3>1, <4>1, <4>2, <4>3 DEF ZAdd, Segments
      <4>4. CASE p # r.user
        <5>1. p \in Present(board) /\ board'[p] = board[p]
          BY <3>1, <4>2, <4>4 DEF Present, ZAdd
        <5>2. \A s \in Segments : dims'[s][p] = dims[s][p]
          BY <3>1, <4>2, <4>4 DEF ZAdd
        <5> QED
          BY <3>2, <5>1, <5>2 DEF Segments
      <4> QED
        BY <4>3, <4>4
    <3> QED
      BY <3>3, <3>4
  <2> QED
    BY <2>1, <2>2, StepOnBoards
<1> QED
  BY <1>1, <1>2, Invariance, PTL DEF Spec

-----------------------------------------------------------------------------
\* A sent request keeps what it asks and the attempts it has made.
LEMMA AttemptsStay ==
  ASSUME IInv, [Next]_vars, NEW i \in Requests, pc[i] # "new"
  PROVE  pc'[i] # "new" /\ req'[i] = req[i] /\ ran[i] \subseteq ran'[i]
<1> USE DEF IInv, TypeOK
<1>1. ASSUME NEW j \in Requests, NEW r \in Traffic,
             Accept(j, r) \/ Refuse(j, r) \/ NothingToDo(j, r) \/ OptInOrOut(j, r)
      PROVE  pc'[i] = pc[i] /\ req'[i] = req[i] /\ ran' = ran
  BY <1>1 DEF Accept, Refuse, NothingToDo, OptInOrOut, Dismiss, Finish
<1>2. ASSUME NEW j \in Requests, NEW cmd \in Writes, NEW outcome \in {"ok", "notfound"}, NEW answer,
             WriteAnswered(j, cmd, outcome, answer)
      PROVE  pc'[i] # "new" /\ req' = req /\ ran[i] \subseteq ran'[i]
  BY <1>2 DEF WriteAnswered, Answered, Write, Finish
<1>3. ASSUME NEW j \in Requests, Respond(j)
      PROVE  pc'[i] # "new" /\ req' = req /\ ran[i] \subseteq ran'[i]
  <2>1. CASE ReadScore(j)
    BY <2>1 DEF ReadScore, Answered
  <2>2. CASE CountPlayers(j) \/ ListPlayers(j) \/ GetRank(j)
    BY <2>2 DEF CountPlayers, ListPlayers, GetRank, Answered, Finish
  <2>3. CASE SetScore(j) \/ SetTenantScore(j) \/ SetScoresBulk(j) \/ CreateScore(j)
    BY <1>2, <2>3 DEF SetScore, SetTenantScore, SetScoresBulk, CreateScore, Writes
  <2>4. CASE AddScore(j) \/ DeleteUser(j) \/ DeleteUsers(j) \/ ResetLeaderboard(j)
    BY <1>2, <2>4 DEF AddScore, DeleteUser, DeleteUsers, ResetLeaderboard, Writes
  <2> QED
    BY <1>3, <2>1, <2>2, <2>3, <2>4 DEF Respond
<1>4. ASSUME NEW j \in Requests, Fail(j)
      PROVE  pc'[i] # "new" /\ req' = req /\ ran' = ran
  BY <1>4 DEF Fail, Resend, GiveUp, LoseConnection, Abandoned, Finish
<1>5. ASSUME NEW m \in limbo, ExecuteLate(m)
      PROVE  pc' = pc /\ req' = req /\ ran[i] \subseteq ran'[i]
  BY <1>5 DEF ExecuteLate, Write, locals
<1>6. CASE UNCHANGED vars
  BY <1>6 DEF vars, locals
<1> QED
  BY <1>1, <1>3, <1>4, <1>5, <1>6 DEF Next, Arrive

\* A board that changes is changed by a sent request, which records the attempt
\* when its command takes effect.
LEMMA WritesAreRecorded ==
  ASSUME IInv, [Next]_vars
  PROVE  \/ UNCHANGED redis
         \/ \E cmd \in Writes, i \in Requests :
              /\ Fits(cmd, req[i]) /\ Execute(cmd, req[i])
              /\ pc[i] # "new"
              /\ TakesEffect(cmd, req[i]) => ran'[i] # {}
<1>1. ASSUME NEW i \in Requests, NEW cmd \in Writes, NEW n, Write(i, cmd, n)
      PROVE  /\ Execute(cmd, req[i])
             /\ TakesEffect(cmd, req[i]) => ran'[i] # {}
  BY <1>1 DEF Write, IInv, TypeOK
<1>2. ASSUME NEW i \in Requests, NEW cmd \in Writes, NEW outcome, NEW answer,
             WriteAnswered(i, cmd, outcome, answer)
      PROVE  /\ Fits(cmd, req[i]) /\ Execute(cmd, req[i])
             /\ pc[i] # "new"
             /\ TakesEffect(cmd, req[i]) => ran'[i] # {}
  <2>1. Write(i, cmd, tries[i]) /\ pc[i] = cmd
    BY <1>2 DEF WriteAnswered, Answered
  <2> QED
    BY <1>1, <2>1 DEF IInv, Control, Commands, Writes
<1>3. ASSUME NEW i \in Requests, Respond(i)
      PROVE  \/ UNCHANGED redis
             \/ \E cmd \in Writes : /\ Fits(cmd, req[i]) /\ Execute(cmd, req[i])
                                    /\ pc[i] # "new"
                                    /\ TakesEffect(cmd, req[i]) => ran'[i] # {}
  <2>1. CASE ReadScore(i) \/ CountPlayers(i) \/ ListPlayers(i) \/ GetRank(i)
    BY <2>1 DEF ReadScore, CountPlayers, ListPlayers, GetRank
  <2>2. CASE SetScore(i) \/ SetTenantScore(i) \/ SetScoresBulk(i) \/ CreateScore(i)
    BY <1>2, <2>2 DEF SetScore, SetTenantScore, SetScoresBulk, CreateScore, Writes
  <2>3. CASE AddScore(i) \/ DeleteUser(i) \/ DeleteUsers(i) \/ ResetLeaderboard(i)
    BY <1>2, <2>3 DEF AddScore, DeleteUser, DeleteUsers, ResetLeaderboard, Writes
  <2> QED
    BY <1>3, <2>1, <2>2, <2>3 DEF Respond
<1>4. ASSUME NEW m \in limbo, ExecuteLate(m)
      PROVE  /\ m.cmd \in Writes /\ m.id \in Requests
             /\ Fits(m.cmd, req[m.id]) /\ Execute(m.cmd, req[m.id])
             /\ pc[m.id] # "new"
             /\ TakesEffect(m.cmd, req[m.id]) => ran'[m.id] # {}
  <2>1. m.cmd \in Writes /\ m.id \in Requests /\ Fits(m.cmd, req[m.id])
    BY DEF IInv, CopiesFit, TypeOK, Copies
  <2>2. pc[m.id] # "new"
    BY <2>1 DEF IInv, Attempts, CopiesOf
  <2> QED
    BY <1>1, <1>4, <2>1, <2>2 DEF ExecuteLate
<1>5. ASSUME NEW i \in Requests, Arrive(i) \/ Fail(i) PROVE UNCHANGED redis
  BY <1>5 DEF Arrive, Accept, Refuse, NothingToDo, OptInOrOut, Dismiss,
              Fail, Resend, GiveUp, LoseConnection, Abandoned
<1> QED
  BY <1>3, <1>4, <1>5 DEF Next, vars

\* What a write makes of a score: it stores a finite one, leaves the score as it
\* is, removes it, or adds to it.
LEMMA WriteStores ==
  ASSUME IInv, NEW cmd \in Writes, NEW r, Fits(cmd, r), Execute(cmd, r), NEW p \in Players
  PROVE  /\ board'[p] \in Finite \cup {board[p], Absent} \/ (cmd = "ZINCRBY" /\ r.user = p)
         /\ \A s \in Segments : dims'[s][p] \in Finite \cup {dims[s][p]}
<1>0. p \in Members /\ board \in ZSets
  BY DEF Players, IInv, TypeOK
<1>1. CASE cmd = "TENANT_SCORE_UPDATE"
  <2>1. r.score \in Finite
    BY <1>1, FitsType DEF Commands
  <2> QED
    BY <1>0, <1>1, <2>1 DEF Execute, TenantScoreUpdate, ZAdd
<1>2. CASE cmd # "TENANT_SCORE_UPDATE"
  <2>1. board' = BoardAfter(cmd, r) /\ UNCHANGED dims
    BY <1>2 DEF Execute
  <2>2. CASE cmd \in {"ZADD", "ZADD_NEW"}
    <3>1. (cmd = "ZADD" => r.score \in Finite) /\ (cmd = "ZADD_NEW" => r.by \in Finite)
      BY FitsType DEF Commands
    <3> QED
      BY <1>0, <2>1, <2>2, <3>1 DEF BoardAfter, ZAdd
  <2>3. CASE cmd = "ZADD_BULK"
    <3>1. \A u \in DOMAIN Validated(r.scores) : Validated(r.scores)[u] \in Finite
      BY <2>3, FitsType, ValidatedType DEF Fits, Commands
    <3> QED
      BY <1>0, <2>1, <2>3, <3>1 DEF BoardAfter, ZAdd
  <2>4. CASE cmd = "ZINCRBY"
    BY <1>0, <2>1, <2>4 DEF BoardAfter, ZIncrBy, ZSets
  <2>5. CASE cmd \in {"ZREM", "ZREM_BULK", "DEL"}
    BY <1>0, <2>1, <2>5 DEF BoardAfter, ZRem, EmptyZSet
  <2> QED
    BY <1>2, <2>1, <2>2, <2>3, <2>4, <2>5 DEF Writes
<1> QED
  BY <1>1, <1>2

\* A score is infinite only after an increment of its player
\* (leaderboard_service.py:262), and never on the board of a segment.
THEOREM InfinityIsAdded == Spec => []InfinityOnlyAdded
<1>0. Inf \notin Finite /\ Inf # Absent
  BY ZSetAssumption DEF Inf, Finite
<1>1. Init => InfinityOnlyAdded
  BY <1>0 DEF Init, InfinityOnlyAdded, EmptyZSet, Players
<1>2. IInv /\ InfinityOnlyAdded /\ [Next]_vars => InfinityOnlyAdded'
  <2> SUFFICES ASSUME IInv, InfinityOnlyAdded, [Next]_vars PROVE InfinityOnlyAdded'
    OBVIOUS
  <2>1. ASSUME NEW p \in Players, NEW i \in IncrementsOf(p), ran[i] # {}
        PROVE  i \in IncrementsOf(p)' /\ ran'[i] # {}
    <3>1. i \in Requests /\ pc[i] # "new"
      BY DEF IncrementsOf, Asks
    <3> QED
      BY <2>1, <3>1, AttemptsStay DEF IncrementsOf, Asks
  <2>2. CASE UNCHANGED redis
    BY <2>1, <2>2 DEF redis, InfinityOnlyAdded
  <2>3. ASSUME NEW cmd \in Writes, NEW i \in Requests, Fits(cmd, req[i]), Execute(cmd, req[i]),
               pc[i] # "new", TakesEffect(cmd, req[i]) => ran'[i] # {}
        PROVE  InfinityOnlyAdded'
    <3>1. \A s \in Segments : \A p \in Players : dims'[s][p] # Inf
      BY <1>0, <2>3, WriteStores DEF InfinityOnlyAdded
    <3>2. ASSUME NEW p \in Players, board'[p] = Inf, Seed[p] # Inf
          PROVE  \E j \in IncrementsOf(p)' : ran'[j] # {}
      <4>1. CASE board[p] = Inf
        BY <2>1, <3>2, <4>1 DEF InfinityOnlyAdded
      <4>2. CASE board[p] # Inf
        <5>1. cmd = "ZINCRBY" /\ req[i].user = p
          BY <1>0, <2>3, <3>2, <4>2, WriteStores
        <5>2. i \in IncrementsOf(p)'
          BY <2>3, <5>1, AttemptsStay DEF IncrementsOf, Asks, Fits, OpsOf, Commands, Writes
        <5> QED
          BY <2>3, <5>1, <5>2 DEF TakesEffect
      <4> QED
        BY <4>1, <4>2
    <3> QED
      BY <3>1, <3>2 DEF InfinityOnlyAdded
  <2> QED
    BY <2>2, <2>3, WritesAreRecorded
<1> QED
  BY <1>1, <1>2, Invariance, PTL DEF Spec
-----------------------------------------------------------------------------
(* The two looks of a listing.                                               *)

\* The players a request takes off the board.
Removes(r) ==
  CASE r.op = "delete" -> {r.user} [] r.op = "deletes" -> r.users
    [] r.op = "reset" -> Players [] OTHER -> {}

\* A valid write leaves players on the board that it does not remove.
LEMMA WriteLeaves ==
  ASSUME TypeOK, NEW i \in Requests, NEW cmd \in Writes, Fits(cmd, req[i]), Execute(cmd, req[i]),
         NEW p \in Players, board[p] # Absent, p \notin Removes(req[i])
  PROVE  board'[p] # Absent
<1> DEFINE r == req[i]
<1>0. /\ board \in ZSets
      /\ cmd \in {"ZADD", "TENANT_SCORE_UPDATE"} => r.user \in Players /\ r.score \in Finite
      /\ cmd \in {"ZADD_NEW", "ZINCRBY"} => r.user \in Players /\ r.by \in Score
      /\ cmd = "ZADD_NEW" => r.by \in Finite
  BY FitsType DEF TypeOK, Writes, Commands
<1>1. CASE cmd \in {"ZADD", "TENANT_SCORE_UPDATE"}
  BY <1>0, <1>1, ScoreType DEF Execute, TenantScoreUpdate, BoardAfter, ZAdd, Players
<1>2. CASE cmd = "ZADD_BULK"
  <2>1. \A u \in DOMAIN Validated(r.scores) : Validated(r.scores)[u] # Absent
    BY <1>2, ValidatedType, ScoreType DEF Fits, OpsOf, Commands, Writes
  <2> QED  BY <1>2, <2>1 DEF Execute, BoardAfter, ZAdd, Players
<1>3. CASE cmd = "ZADD_NEW"
  BY <1>0, <1>3, ScoreType DEF Execute, BoardAfter, ZAdd, Players
<1>4. CASE cmd = "ZINCRBY"
  <2>1. board' = ZIncrBy(board, r.user, r.by)
    BY <1>4 DEF Execute, BoardAfter
  <2>2. board'[r.user] \in Score
    BY <1>0, <1>4, <2>1, ZIncrByType DEF Players
  <2>3. p # r.user => board'[p] = board[p]
    BY <1>0, <2>1 DEF ZIncrBy, ZSets, Players
  <2> QED  BY <2>2, <2>3, ScoreType
<1>5. CASE cmd \in {"ZREM", "ZREM_BULK", "DEL"}
  <2>1. r.op = (IF cmd = "ZREM" THEN "delete" ELSE IF cmd = "ZREM_BULK" THEN "deletes" ELSE "reset")
    BY <1>5 DEF Fits, OpsOf, Commands, Writes
  <2> QED  BY <1>5, <2>1 DEF Removes, Execute, BoardAfter, ZRem, Players
<1> QED  BY <1>1, <1>2, <1>3, <1>4, <1>5 DEF Writes

\* A valid write puts on the board only players it sets or increments.
LEMMA WriteAdds ==
  ASSUME TypeOK, NEW i \in Requests, NEW cmd \in Writes, Fits(cmd, req[i]), Execute(cmd, req[i]),
         NEW p \in Players, board[p] = Absent, board'[p] # Absent
  PROVE  /\ req[i].op \in AddOps /\ p \in Touches(req[i])
         /\ TakesEffect(cmd, req[i])
<1> DEFINE r == req[i]
<1>1. CASE cmd = "TENANT_SCORE_UPDATE"
  <2>1. board' = ZAdd(board, [q \in {r.user} |-> r.score]) /\ r.op = "score"
    BY <1>1 DEF Execute, TenantScoreUpdate, Fits, OpsOf, Commands, Writes
  <2> QED  BY <1>1, <2>1 DEF ZAdd, Players, AddOps, Touches, TakesEffect
<1>2. CASE cmd # "TENANT_SCORE_UPDATE"
  <2>1. p \in Touches(r)
    BY <1>2, WriteTouches
  <2>2. cmd \notin {"ZREM", "ZREM_BULK", "DEL"}
    BY <1>2 DEF Execute, BoardAfter, ZRem, EmptyZSet, Players
  <2> QED  BY <2>1, <2>2 DEF Fits, OpsOf, Commands, Writes, AddOps, TakesEffect
<1> QED  BY <1>1, <1>2

\* A listing that waits for its entries has counted players who have left the
\* board since only if they were removed, and others have come only if added.
Counts(i, counted) ==
  /\ Cardinality(counted) = out[i].total
  /\ Present(board) \subseteq counted \cup Written(AddOps)
  /\ counted \ Written(RemoveOps) \subseteq Present(board)

Looks ==
  \A i \in Requests : pc[i] = "ZREVRANGE" => \E counted \in SUBSET Players : Counts(i, counted)

\* What has been written stays written.
LEMMA WrittenStays ==
  ASSUME IInv, [Next]_vars, NEW ops
  PROVE  Written(ops) \subseteq Written(ops)'
<1> SUFFICES ASSUME NEW j \in Requests, Asks(j, ops), ran[j] # {}
             PROVE  Asks(j, ops)' /\ ran'[j] # {} /\ req'[j] = req[j]
  BY DEF Written
<1> QED  BY AttemptsStay DEF Asks

\* Whoever comes onto the board or leaves it is written by an executed request.
LEMMA BoardChangesAreWritten ==
  ASSUME IInv, [Next]_vars
  PROVE  /\ Present(board)' \subseteq Present(board) \cup Written(AddOps)'
         /\ Present(board) \ Written(RemoveOps)' \subseteq Present(board)'
<1>1. CASE UNCHANGED redis
  BY <1>1 DEF redis, Present
<1>2. ASSUME NEW cmd \in Writes, NEW j \in Requests, Fits(cmd, req[j]), Execute(cmd, req[j]),
             pc[j] # "new", TakesEffect(cmd, req[j]) => ran'[j] # {}
      PROVE  /\ Present(board)' \subseteq Present(board) \cup Written(AddOps)'
             /\ Present(board) \ Written(RemoveOps)' \subseteq Present(board)'
  <2>0. pc'[j] # "new" /\ req'[j] = req[j] /\ TypeOK
    BY <1>2, AttemptsStay DEF IInv
  <2>1. ASSUME NEW p \in Players, board[p] = Absent, board'[p] # Absent
        PROVE  p \in Written(AddOps)'
    <3>1. req[j].op \in AddOps /\ p \in Touches(req[j]) /\ TakesEffect(cmd, req[j])
      BY <1>2, <2>0, <2>1, WriteAdds
    <3> QED  BY <1>2, <2>0, <3>1 DEF Written, Asks
  <2>2. ASSUME NEW p \in Players, board[p] # Absent, board'[p] = Absent
        PROVE  p \in Written(RemoveOps)'
    <3>1. p \in Removes(req[j])
      BY <1>2, <2>0, <2>2, WriteLeaves
    <3>2. req[j].op \in RemoveOps /\ p \in Touches(req[j])
      BY <3>1 DEF Removes, RemoveOps, Touches
    <3>3. TakesEffect(cmd, req[j])
      <4> SUFFICES ASSUME cmd = "ZREM" PROVE req[j].user \in Present(board)
        BY DEF TakesEffect
      <4>1. req[j].user = p
        BY <1>2, <3>1 DEF Fits, OpsOf, Commands, Writes, Removes
      <4> QED  BY <2>2, <4>1 DEF Present, Players
    <3> QED  BY <1>2, <2>0, <3>2, <3>3 DEF Written, Asks
  <2> QED  BY <2>1, <2>2 DEF Present, Players
<1> QED  BY <1>1, <1>2, WritesAreRecorded

\* A request that waits for its entries, or is answered, is at the place it was
\* at, or has just counted, or has just been answered.
LEMMA ListingSteps ==
  ASSUME IInv, [Next]_vars, NEW i \in Requests
  PROVE  /\ pc'[i] = "ZREVRANGE" =>
              \/ pc[i] = "ZREVRANGE" /\ out'[i] = out[i]
              \/ out'[i] = [total |-> ZCard(board)] /\ board' = board
         /\ (pc'[i] = "ok" /\ Asks(i, {"top", "dimension"})') =>
              \/ pc[i] = "ok" /\ out'[i] = out[i] /\ req'[i] = req[i]
              \/ /\ pc[i] = "ZREVRANGE" /\ req'[i] = req[i] /\ board' = board
                 /\ out'[i] = [total |-> out[i].total, entries |-> ZRevRange(board, req[i].limit)]
<1> DEFINE Goal ==
      /\ pc'[i] = "ZREVRANGE" =>
           \/ pc[i] = "ZREVRANGE" /\ out'[i] = out[i]
           \/ out'[i] = [total |-> ZCard(board)] /\ board' = board
      /\ (pc'[i] = "ok" /\ Asks(i, {"top", "dimension"})') =>
           \/ pc[i] = "ok" /\ out'[i] = out[i] /\ req'[i] = req[i]
           \/ /\ pc[i] = "ZREVRANGE" /\ req'[i] = req[i] /\ board' = board
              /\ out'[i] = [total |-> out[i].total, entries |-> ZRevRange(board, req[i].limit)]
<1> USE DEF IInv, TypeOK
<1>1. ASSUME NEW j \in Requests, NEW r \in Traffic,
             Accept(j, r) \/ Refuse(j, r) \/ NothingToDo(j, r) \/ OptInOrOut(j, r)
      PROVE  Goal
  <2>1. CASE Accept(j, r)
    <3>1. FirstCommand(r) \notin {"ok", "ZREVRANGE"}
      BY <2>1, RequestAssumption DEF Accept, Consent, FirstCommand, IsRequest, Ops
    <3> QED  BY <2>1, <3>1 DEF Accept
  <2>2. CASE Refuse(j, r) \/ OptInOrOut(j, r)
    BY <2>2 DEF Refuse, OptInOrOut, Dismiss, Finish
  <2>3. CASE NothingToDo(j, r)
    BY <2>3 DEF NothingToDo, IsEmptyBatch, Dismiss, Finish, Asks
  <2> QED  BY <1>1, <2>1, <2>2, <2>3
<1>2. ASSUME NEW j \in Requests, NEW cmd \in Writes, NEW outcome \in {"ok", "notfound"}, NEW answer,
             WriteAnswered(j, cmd, outcome, answer)
      PROVE  Goal
  <2>1. /\ pc[j] = cmd /\ req' = req
        /\ pc' = [pc EXCEPT ![j] = outcome] /\ out' = [out EXCEPT ![j] = answer]
    BY <1>2 DEF WriteAnswered, Answered, Finish
  <2>2. req[j].op \notin {"top", "dimension"}
    BY <2>1 DEF Control, Fits, OpsOf, Commands, Writes
  <2> QED  BY <2>1, <2>2 DEF Asks
<1>3. ASSUME NEW j \in Requests, Respond(j) PROVE Goal
  <2>1. CASE ReadScore(j)
    BY <2>1 DEF ReadScore, Answered
  <2>2. CASE CountPlayers(j)
    BY <2>2 DEF CountPlayers, Answered, Finish, redis
  <2>3. CASE ListPlayers(j)
    BY <2>3 DEF ListPlayers, Answered, Finish, redis
  <2>4. CASE GetRank(j)
    <3>1. pc[j] = "RANK" /\ req' = req
      BY <2>4 DEF GetRank, Answered
    <3>2. req[j].op = "rank"
      BY <3>1 DEF Control, Fits, OpsOf, Commands, Reads, Writes
    <3> QED  BY <2>4, <3>1, <3>2 DEF GetRank, Finish, Asks
  <2>5. CASE SetScore(j) \/ SetTenantScore(j) \/ SetScoresBulk(j) \/ CreateScore(j)
    BY <1>2, <2>5 DEF SetScore, SetTenantScore, SetScoresBulk, CreateScore, Writes
  <2>6. CASE AddScore(j) \/ DeleteUser(j) \/ DeleteUsers(j) \/ ResetLeaderboard(j)
    BY <1>2, <2>6 DEF AddScore, DeleteUser, DeleteUsers, ResetLeaderboard, Writes
  <2> QED  BY <1>3, <2>1, <2>2, <2>3, <2>4, <2>5, <2>6 DEF Respond
<1>4. ASSUME NEW j \in Requests, Fail(j) PROVE Goal
  BY <1>4 DEF Fail, Resend, GiveUp, LoseConnection, Abandoned, Finish
<1>5. ASSUME NEW m \in limbo, ExecuteLate(m) PROVE Goal
  BY <1>5 DEF ExecuteLate, locals
<1>6. CASE UNCHANGED vars
  BY <1>6 DEF vars, redis, locals
<1> QED  BY <1>1, <1>3, <1>4, <1>5, <1>6 DEF Next, Arrive

LEMMA NextLooks ==
  ASSUME IInv, Looks, [Next]_vars
  PROVE  Looks'
<1> SUFFICES ASSUME NEW i \in Requests, pc'[i] = "ZREVRANGE"
             PROVE  \E counted \in SUBSET Players : Counts(i, counted)'
  BY DEF Looks
<1>1. CASE pc[i] = "ZREVRANGE" /\ out'[i] = out[i]
  <2>1. PICK counted \in SUBSET Players : Counts(i, counted)
    BY <1>1 DEF Looks
  <2>2. Counts(i, counted)'
    <3>1. /\ Written(AddOps) \subseteq Written(AddOps)'
          /\ Written(RemoveOps) \subseteq Written(RemoveOps)'
      BY WrittenStays
    <3>2. /\ Present(board)' \subseteq Present(board) \cup Written(AddOps)'
          /\ Present(board) \ Written(RemoveOps)' \subseteq Present(board)'
      BY BoardChangesAreWritten
    <3> QED  BY <1>1, <2>1, <3>1, <3>2 DEF Counts
  <2> QED  BY <2>2
<1>2. CASE out'[i] = [total |-> ZCard(board)] /\ board' = board
  <2>1. Present(board) \in SUBSET Players
    BY DEF Present, Players
  <2>2. Counts(i, Present(board))'
    BY <1>2 DEF Counts, ZCard, Present
  <2>3. Present(board)' = Present(board)
    BY <1>2 DEF Present
  <2> QED  BY <2>1, <2>2, <2>3
<1> QED  BY <1>1, <1>2, ListingSteps

\* What an answered listing shows is explained by what others have written.
LEMMA NextLooksDiffer ==
  ASSUME IInv, Looks, TwoLooksDifferByWrites, [Next]_vars
  PROVE  TwoLooksDifferByWrites'
<1> DEFINE Explained(i, counted) ==
      /\ Cardinality(counted) = out[i].total
      /\ {e.user : e \in out[i].entries} \subseteq counted \cup Written(AddOps)
      /\ Cardinality(out[i].entries) < req[i].limit =>
           counted \ Written(RemoveOps) \subseteq {e.user : e \in out[i].entries}
<1>0. /\ Written(AddOps) \subseteq Written(AddOps)'
      /\ Written(RemoveOps) \subseteq Written(RemoveOps)'
  BY WrittenStays
<1> SUFFICES ASSUME NEW i \in Requests, Asks(i, {"top", "dimension"})', pc'[i] = "ok"
             PROVE  \E counted \in SUBSET Players : Explained(i, counted)'
  BY DEF TwoLooksDifferByWrites
<1>1. CASE pc[i] = "ok" /\ out'[i] = out[i] /\ req'[i] = req[i]
  <2>1. Asks(i, {"top", "dimension"})
    BY <1>1 DEF Asks
  <2>2. PICK counted \in SUBSET Players : Explained(i, counted)
    BY <1>1, <2>1 DEF TwoLooksDifferByWrites
  <2>3. Explained(i, counted)'
    BY <1>0, <1>1, <2>2
  <2> QED  BY <2>3
<1>2. CASE /\ pc[i] = "ZREVRANGE" /\ req'[i] = req[i] /\ board' = board
           /\ out'[i] = [total |-> out[i].total, entries |-> ZRevRange(board, req[i].limit)]
  <2> DEFINE limit == req[i].limit
             entries == ZRevRange(board, limit)
             listed == {e.user : e \in entries}
  <2>1. PICK counted \in SUBSET Players : Counts(i, counted)
    BY <1>2 DEF Looks
  <2>2. limit \in Nat /\ board \in ZSets
    <3>1. Fits("ZREVRANGE", req[i])
      BY <1>2 DEF IInv, Control, Commands, Reads
    <3> QED  BY <3>1, FitsType DEF IInv, TypeOK, Commands, Reads
  <2>3. listed \subseteq Present(board)
    BY DEF ZRevRange
  <2>4. Cardinality(entries) < limit => Present(board) \subseteq listed
    <3> SUFFICES ASSUME Cardinality(entries) < limit, NEW m \in Present(board)
                 PROVE  \E e \in entries : e.user = m
      OBVIOUS
    <3> QED  BY <2>2, ListingComplete
  <2>5. /\ out'[i].total = out[i].total /\ out'[i].entries = entries /\ req'[i].limit = limit
    BY <1>2
  <2> HIDE DEF listed, entries, limit
  <2>6. /\ Cardinality(counted) = out'[i].total
        /\ listed \subseteq counted \cup Written(AddOps)'
        /\ Cardinality(entries) < limit => counted \ Written(RemoveOps)' \subseteq listed
    BY <1>0, <2>1, <2>3, <2>4, <2>5 DEF Counts
  <2>7. Explained(i, counted)'
    BY <2>5, <2>6 DEF listed
  <2> QED  BY <2>7
<1> QED  BY <1>1, <1>2, ListingSteps

\* A listing's total and its entries differ only by players whom other requests
\* have added or removed (leaderboard_service.py:299-300), for any number of
\* players, requests and limits, and whatever arrives late.
THEOREM LooksDifferByWrites == Spec => []TwoLooksDifferByWrites
<1>1. Init => Looks /\ TwoLooksDifferByWrites
  BY DEF Init, Looks, TwoLooksDifferByWrites
<1>2. IInv /\ Looks /\ TwoLooksDifferByWrites /\ [Next]_vars => Looks' /\ TwoLooksDifferByWrites'
  <2>1. ASSUME IInv, Looks, TwoLooksDifferByWrites, [Next]_vars
        PROVE  Looks' /\ TwoLooksDifferByWrites'
    BY <2>1, NextLooks, NextLooksDiffer
  <2> QED  BY <2>1
<1> QED  BY <1>1, <1>2, Invariance, PTL DEF Spec

-----------------------------------------------------------------------------
(* The refinement: a run without faults, whose traffic is about the whole    *)
(* board, is a run of AtomicBoard.                                           *)

\* Clients increment only players who are on the board and whom nobody removes.
IncrementedStay ==
  \A r \in Traffic : Valid(r) /\ r.op = "incr" =>
    Seed[r.user] # Absent /\ \A q \in Traffic : Valid(q) => r.user \notin Removes(q)

\* Clients ask for scores and ranks of the whole board, not for segments or consent.
WholeBoardTraffic == \A r \in Traffic : ~Consent(r) /\ r.op # "dimension"

\* Without faults no copies are under way, who is incremented is on the board, so
\* that no increment creates its player, and nothing is answered early.
Smooth ==
  /\ limbo = {}
  /\ \A r \in Traffic : Valid(r) /\ r.op = "incr" => board[r.user] # Absent
  /\ \A i \in Requests : pc[i] # "ZADD_NEW"
  /\ \A i \in Requests : pc[i] \in {"new"} \cup (Commands \ {"ZREVRANGE"}) => out[i] = Nothing

\* The two modules mean the same by a request and by a board.
LEMMA SameRequests ==
  /\ Atomic!Players = Players
  /\ \A r : Atomic!Valid(r) <=> Valid(r)
  /\ \A r : Atomic!IsEmptyBatch(r) <=> IsEmptyBatch(r)
  /\ \A s : Atomic!Validated(s) = Validated(s)
  /\ \A a, b : Atomic!Plus(a, b) = Plus(a, b)
<1>1. \A r : Atomic!Valid(r) <=> Valid(r)
  BY DEF Atomic!Valid, Valid, Atomic!Players, Players, Atomic!ValidScore, ValidScore,
         Atomic!Finite, Finite, Atomic!ValidTenant, ValidTenant, Atomic!Dimensions, Dimensions,
         Atomic!ValidLimit, ValidLimit, Atomic!Views, Views
<1>2. \A s : Atomic!Validated(s) = Validated(s)
  BY DEF Atomic!Validated, Validated
<1>3. \A r : Atomic!IsEmptyBatch(r) <=> IsEmptyBatch(r)
  BY DEF Atomic!IsEmptyBatch, IsEmptyBatch
<1>4. \A a, b : Atomic!Plus(a, b) = Plus(a, b)
  BY DEF Atomic!Plus, Plus, Atomic!Inf, Inf
<1>5. Atomic!Players = Players
  BY DEF Atomic!Players, Players
<1> QED  BY <1>1, <1>2, <1>3, <1>4, <1>5

LEMMA SameCardinality == \A S : Atomic!Cardinality(S) = Cardinality(S)
  BY DEF Atomic!Cardinality, Cardinality

LEMMA SameBoard ==
  /\ Atomic!Listed = Present(board)
  /\ \A p, q : Atomic!Above(p, q) <=> Before(board, p, q)
  BY DEF Atomic!Listed, Atomic!Players, Present, Atomic!Above, Before

\* What clients see of the place a request is at.
Seen(c) == IF c = "ZREVRANGE" THEN "counted" ELSE IF c \in Commands THEN "open" ELSE c

LEMMA StatusAfter ==
  ASSUME TypeOK, NEW i \in Requests, NEW c, pc' = [pc EXCEPT ![i] = c]
  PROVE  /\ Status' = [Status EXCEPT ![i] = Seen(c)]
         /\ Status[i] = Seen(pc[i])
  BY DEF TypeOK, Status, Seen

LEMMA InitAtomic == Init => Atomic!AInit
<1> SUFFICES ASSUME Init PROVE Atomic!AInit
  OBVIOUS
<1>1. Status = [i \in Requests |-> "new"]
  BY DEF Init, Status, Commands, Reads, Writes
<1> QED
  BY <1>1 DEF Init, Atomic!AInit, Atomic!Segments, Segments, Atomic!Players, Players, EmptyZSet, Nothing

-----------------------------------------------------------------------------
LEMMA InitSmooth ==
  ASSUME Init, IncrementedStay
  PROVE  Smooth
  BY DEF Init, Smooth, IncrementedStay, Commands, Reads, Writes

LEMMA NextSmooth ==
  ASSUME IInv, Smooth, [Next]_vars, IncrementedStay, ~Faults
  PROVE  Smooth'
<1> DEFINE Kept == \A r \in Traffic : Valid(r) /\ r.op = "incr" => board'[r.user] # Absent
<1>1. ASSUME NEW i \in Requests, NEW cmd \in Writes, NEW outcome, NEW answer,
             outcome \notin Commands \cup {"new"}, WriteAnswered(i, cmd, outcome, answer)
      PROVE  Smooth'
  <2>1. Fits(cmd, req[i])
    BY <1>1 DEF WriteAnswered, Answered, IInv, Control, Commands
  <2>2. Kept
    <3> SUFFICES ASSUME NEW r \in Traffic, Valid(r), r.op = "incr" PROVE board'[r.user] # Absent
      OBVIOUS
    <3>1. board[r.user] # Absent /\ r.user \in Players /\ r.user \notin Removes(req[i])
      BY <2>1 DEF Smooth, Valid, IncrementedStay, Fits
    <3> QED  BY <1>1, <2>1, <3>1, WriteLeaves DEF IInv, WriteAnswered, Write
  <2> QED
    BY <1>1, <2>2 DEF WriteAnswered, Answered, Finish, Smooth, IInv, TypeOK, Commands, Writes
<1>2. ASSUME NEW i \in Requests, Arrive(i)
      PROVE  Smooth'
  <2>1. UNCHANGED <<board, limbo>>
    BY <1>2 DEF Arrive, Accept, Refuse, NothingToDo, OptInOrOut, Dismiss, redis
  <2>2. PICK r \in Traffic : Accept(i, r) \/ Refuse(i, r) \/ NothingToDo(i, r) \/ OptInOrOut(i, r)
    BY <1>2 DEF Arrive
  <2>3. CASE Accept(i, r)
    <3>1. /\ FirstCommand(r) # "ZADD_NEW"
          /\ pc' = [pc EXCEPT ![i] = FirstCommand(r)] /\ out' = out /\ pc[i] = "new"
      BY <2>3, RequestAssumption DEF Accept, FirstCommand, IsRequest, Ops, Consent
    <3> QED  BY <2>1, <3>1 DEF Smooth, IInv, TypeOK
  <2>4. CASE ~Accept(i, r)
    BY <2>1, <2>2, <2>4 DEF Refuse, NothingToDo, OptInOrOut, Dismiss, Finish, Smooth, IInv, TypeOK,
                            Commands, Reads, Writes
  <2> QED  BY <2>3, <2>4
<1>3. ASSUME NEW i \in Requests, ReadScore(i)
      PROVE  Smooth'
  <2>1. req[i] \in Traffic /\ Valid(req[i]) /\ req[i].op = "incr"
    BY <1>3 DEF ReadScore, Answered, IInv, Control, Fits, OpsOf, Commands, Reads
  <2>2. pc' = [pc EXCEPT ![i] = "ZINCRBY"] /\ pc[i] = "ZSCORE" /\ UNCHANGED <<board, limbo, out>>
    BY <1>3, <2>1 DEF ReadScore, Answered, Smooth, redis
  <2> QED  BY <2>2 DEF Smooth, IInv, TypeOK, Commands, Reads, Writes
<1>4. ASSUME NEW i \in Requests, CountPlayers(i) \/ ListPlayers(i) \/ GetRank(i)
      PROVE  Smooth'
  BY <1>4 DEF CountPlayers, ListPlayers, GetRank, Answered, Finish, redis, Smooth, IInv, TypeOK,
              Commands, Reads, Writes
<1>5. UNCHANGED vars => Smooth'
  BY DEF vars, redis, locals, Smooth
<1>6. ASSUME NEW i \in Requests, Respond(i)
      PROVE  Smooth'
  BY <1>1, <1>3, <1>4, <1>6
  DEF Respond, SetScore, SetTenantScore, SetScoresBulk, CreateScore, AddScore, DeleteUser,
      DeleteUsers, ResetLeaderboard, Writes, Commands, Reads
<1>7. ASSUME NEW i \in Requests PROVE ~Fail(i)
  BY DEF Fail, Resend, GiveUp, LoseConnection, Abandoned
<1>8. ~\E m \in limbo : ExecuteLate(m)
  BY DEF Smooth
<1> QED  BY <1>2, <1>5, <1>6, <1>7, <1>8 DEF Next

-----------------------------------------------------------------------------
(* Every step is a step of the atomic board, or changes nothing of it.      *)

\* The ranking Redis lists is the one the atomic board asks for.
LEMMA ListingIsRanking ==
  ASSUME board \in ZSets, NEW limit \in Nat
  PROVE  \E order \in Atomic!Rankings(limit) :
           ZRevRange(board, limit) =
             {[rank |-> k, user |-> order[k], score |-> board[order[k]]] : k \in DOMAIN order}
<1> DEFINE P == Present(board)
           N == Cardinality(P)
           size == IF limit < N THEN limit ELSE N
           order == [k \in 1..size |-> CHOOSE m \in P : ZRevRank(board, m) = k - 1]
<1>1. board \in [Members -> Int \cup {Absent}]
  <2>1. \A x \in Score : x \in Int
    BY ScoreType
  <2> QED  BY <2>1 DEF ZSets
<1>2. N \in Nat /\ size \in Nat /\ size <= N /\ size <= limit
  BY <1>1, RanksOrder, FS_CardinalityType
<1>3. \A k \in 1..size : order[k] \in P /\ ZRevRank(board, order[k]) = k - 1
  <2> SUFFICES ASSUME NEW k \in 1..size PROVE order[k] \in P /\ ZRevRank(board, order[k]) = k - 1
    OBVIOUS
  <2>1. k - 1 \in 0..N - 1
    BY <1>2
  <2>2. \E m \in P : ZRevRank(board, m) = k - 1
    BY <1>1, <2>1, RanksHaveNoGaps
  <2> QED  BY <2>2
<1>4. \A m \in P : /\ ZRevRank(board, m) \in 0..N - 1
                   /\ ZRevRank(board, m) < limit => /\ ZRevRank(board, m) + 1 \in 1..size
                                                   /\ order[ZRevRank(board, m) + 1] = m
  <2> SUFFICES ASSUME NEW m \in P
               PROVE  /\ ZRevRank(board, m) \in 0..N - 1
                      /\ ZRevRank(board, m) < limit => /\ ZRevRank(board, m) + 1 \in 1..size
                                                      /\ order[ZRevRank(board, m) + 1] = m
    OBVIOUS
  <2>1. ZRevRank(board, m) \in 0..N - 1
    BY <1>1, RanksOrder
  <2>2. ASSUME ZRevRank(board, m) < limit
        PROVE  ZRevRank(board, m) + 1 \in 1..size /\ order[ZRevRank(board, m) + 1] = m
    <3>1. ZRevRank(board, m) + 1 \in 1..size
      BY <1>2, <2>1, <2>2
    <3> HIDE DEF order
    <3>2. /\ order[ZRevRank(board, m) + 1] \in P
          /\ ZRevRank(board, order[ZRevRank(board, m) + 1]) = ZRevRank(board, m)
      BY <1>3, <2>1, <3>1
    <3> QED  BY <1>1, <3>1, <3>2, RanksFaithful
  <2> QED  BY <2>1, <2>2
<1>5. order \in [1..size -> P] /\ DOMAIN order = 1..size
  BY <1>3
<1> HIDE DEF order, size
<1>6. \A j, k \in 1..size : j < k => Before(board, order[j], order[k])
  <2> SUFFICES ASSUME NEW j \in 1..size, NEW k \in 1..size, j < k
               PROVE  Before(board, order[j], order[k])
    OBVIOUS
  <2>1. ZRevRank(board, order[j]) < ZRevRank(board, order[k])
    BY <1>2, <1>3
  <2> QED  BY <1>1, <1>3, <2>1, RanksFaithful
<1>7. \A k \in 1..size, q \in P :
        (\A j \in 1..size : order[j] # q) => Before(board, order[k], q)
  <2> SUFFICES ASSUME NEW k \in 1..size, NEW q \in P, \A j \in 1..size : order[j] # q
               PROVE  Before(board, order[k], q)
    OBVIOUS
  <2>1. ~(ZRevRank(board, q) < limit) /\ ZRevRank(board, q) \in Nat
    BY <1>2, <1>4
  <2>2. ZRevRank(board, order[k]) < ZRevRank(board, q)
    BY <1>2, <1>3, <2>1
  <2> QED  BY <1>1, <1>3, <2>2, RanksFaithful
<1>8. order \in Atomic!Rankings(limit)
  <2>1. size = IF limit < Cardinality(Atomic!Listed) THEN limit ELSE Cardinality(Atomic!Listed)
    BY SameBoard DEF size
  <2>2. order \in [1..size -> Atomic!Listed]
    BY <1>5, SameBoard
  <2>3. \A j, k \in 1..size : j < k => Atomic!Above(order[j], order[k])
    BY <1>6, SameBoard
  <2>4. \A q \in Atomic!Listed : (\E k \in 1..size : order[k] = q)
                                 \/ \A k \in 1..size : Atomic!Above(order[k], q)
    BY <1>7, SameBoard
  <2> QED  BY <2>1, <2>2, <2>3, <2>4, SameCardinality DEF Atomic!Rankings
<1>9. ZRevRange(board, limit) =
        {[rank |-> k, user |-> order[k], score |-> board[order[k]]] : k \in 1..size}
  <2> DEFINE entry(m) == [rank |-> ZRevRank(board, m) + 1, user |-> m, score |-> board[m]]
             line(k) == [rank |-> k, user |-> order[k], score |-> board[order[k]]]
             listed == {n \in P : ZRevRank(board, n) < limit}
  <2>1. \A m \in listed : \E k \in 1..size : entry(m) = line(k)
    BY <1>4
  <2>2. \A k \in 1..size : \E m \in listed : entry(m) = line(k)
    <3> SUFFICES ASSUME NEW k \in 1..size PROVE \E m \in listed : entry(m) = line(k)
      OBVIOUS
    <3>1. order[k] \in listed /\ ZRevRank(board, order[k]) + 1 = k
      BY <1>2, <1>3
    <3> QED  BY <3>1
  <2>3. ZRevRange(board, limit) = {entry(m) : m \in listed}
    BY DEF ZRevRange
  <2> HIDE DEF entry, line, listed
  <2>4. {entry(m) : m \in listed} = {line(k) : k \in 1..size}
    BY <2>1, <2>2
  <2> QED  BY <2>3, <2>4 DEF line
<1> QED  BY <1>5, <1>8, <1>9

\* What is known of a request that waits for a command.
LEMMA WaitingRequest ==
  ASSUME IInv, Smooth, NEW i \in Requests, NEW cmd \in Commands, pc[i] = cmd
  PROVE  /\ Fits(cmd, req[i])
         /\ cmd # "ZREVRANGE" => Status[i] = "open" /\ out[i] = Nothing
         /\ cmd = "ZREVRANGE" => Status[i] = "counted"
  BY DEF IInv, Control, Smooth, Status

\* An answer is a reply of the atomic board.
LEMMA FinishReplies ==
  ASSUME IInv, NEW i \in Requests, NEW answer, Finish(i, "ok", answer), UNCHANGED req
  PROVE  Atomic!Reply(i, answer)
<1>1. Status' = [Status EXCEPT ![i] = "ok"]
  BY StatusAfter DEF Finish, IInv, Seen, Commands, Reads, Writes
<1> QED  BY <1>1 DEF Atomic!Reply, Finish

LEMMA FinishNotFound ==
  ASSUME IInv, NEW i \in Requests, out[i] = Nothing, Finish(i, "notfound", Nothing), UNCHANGED req
  PROVE  Atomic!ReplyNotFound(i)
<1>1. Status' = [Status EXCEPT ![i] = "notfound"]
  BY StatusAfter DEF Finish, IInv, Seen, Commands, Reads, Writes
<1>2. UNCHANGED out
  BY DEF Finish, IInv, TypeOK
<1> QED  BY <1>1, <1>2 DEF Atomic!ReplyNotFound

LEMMA ArriveIsSubmit ==
  ASSUME IInv, Smooth, NEW i \in Requests, NEW r \in Traffic, ~Consent(r),
         Accept(i, r) \/ Refuse(i, r) \/ NothingToDo(i, r)
  PROVE  Atomic!Submit(i, r) \/ Atomic!Decline(i, r)
<1>1. /\ pc[i] = "new" /\ Status[i] = "new" /\ out[i] = Nothing
      /\ req' = [req EXCEPT ![i] = r] /\ UNCHANGED <<board, dims, members>>
  BY DEF Accept, Refuse, NothingToDo, Dismiss, redis, Smooth, Status, Commands, Reads, Writes
<1>2. CASE Accept(i, r)
  <2>1. FirstCommand(r) \in Commands /\ FirstCommand(r) # "ZREVRANGE" /\ Valid(r)
    BY <1>2, RequestAssumption DEF Accept, FirstCommand, IsRequest, Ops, Consent, Commands, Reads, Writes
  <2>2. Status' = [Status EXCEPT ![i] = "open"]
    BY <1>2, <2>1, StatusAfter DEF Accept, Seen, IInv
  <2>3. UNCHANGED out
    BY <1>2 DEF Accept
  <2> QED  BY <1>1, <2>1, <2>2, <2>3, SameRequests DEF Atomic!Submit
<1>3. CASE Refuse(i, r)
  <2>1. Status' = [Status EXCEPT ![i] = "invalid"]
    BY <1>3, StatusAfter DEF Refuse, Dismiss, Finish, Seen, IInv, Commands, Reads, Writes
  <2>2. UNCHANGED out
    BY <1>1, <1>3 DEF Refuse, Dismiss, Finish, IInv, TypeOK
  <2> QED  BY <1>1, <1>3, <2>1, <2>2, SameRequests DEF Atomic!Decline, Refuse
<1>4. CASE NothingToDo(i, r)
  <2>1. Status' = [Status EXCEPT ![i] = "ok"]
    BY <1>4, StatusAfter DEF NothingToDo, Dismiss, Finish, Seen, IInv, Commands, Reads, Writes
  <2> QED  BY <1>1, <1>4, <2>1, SameRequests DEF Atomic!Decline, NothingToDo, Dismiss, Finish
<1> QED  BY <1>2, <1>3, <1>4

LEMMA SetIsPut ==
  ASSUME IInv, Smooth, NEW i \in Requests, SetScore(i) \/ SetTenantScore(i)
  PROVE  Atomic!PutScore(i)
<1> DEFINE r == req[i]
           cmd == IF SetScore(i) THEN "ZADD" ELSE "TENANT_SCORE_UPDATE"
<1>1. WriteAnswered(i, cmd, "ok", [score |-> r.score])
  BY DEF SetScore, SetTenantScore
<1>2. cmd \in Commands /\ pc[i] = cmd /\ UNCHANGED req
  BY <1>1 DEF WriteAnswered, Answered, Commands, Writes
<1>3. Fits(cmd, r) /\ Status[i] = "open"
  BY <1>2, WaitingRequest
<1>4. /\ r.op = "score" /\ r.user \in Players
      /\ cmd = "ZADD" => r.tenant = None
      /\ cmd = "TENANT_SCORE_UPDATE" => r.tenant # None
  BY <1>2, <1>3, FitsType DEF Fits, OpsOf
<1>5. Atomic!Reply(i, [score |-> r.score])
  BY <1>1, <1>2, FinishReplies DEF WriteAnswered
<1>6. board' = [board EXCEPT ![r.user] = r.score]
  BY <1>1, <1>4 DEF WriteAnswered, Write, Execute, TenantScoreUpdate, BoardAfter, ZAdd, IInv, TypeOK, ZSets, Players
<1>7. CASE cmd = "ZADD"
  BY <1>1, <1>3, <1>4, <1>5, <1>6, <1>7 DEF Atomic!PutScore, Atomic!Open, WriteAnswered, Write, Execute
<1>8. CASE cmd = "TENANT_SCORE_UPDATE"
  <2>1. /\ r.industry \in Industries /\ r.region \in Regions /\ r.size \in Sizes
        /\ dims \in [Segments -> ZSets]
    BY <1>2, <1>3, <1>8, FitsType DEF ValidTenant, IInv, TypeOK
  <2>2. /\ dims' = [s \in Segments |-> IF s \in {r.industry, r.region, r.size}
                                       THEN ZAdd(dims[s], [p \in {r.user} |-> r.score]) ELSE dims[s]]
        /\ members' = [members EXCEPT ![r.tenant] = @ \cup {r.user}]
    BY <1>1, <1>8 DEF WriteAnswered, Write, Execute, TenantScoreUpdate
  <2>3. /\ r.industry # r.region /\ r.industry # r.size /\ r.region # r.size
        /\ {r.industry, r.region, r.size} \subseteq Segments
    BY <2>1, RequestAssumption DEF Segments
  <2>4. \A z \in ZSets : ZAdd(z, [p \in {r.user} |-> r.score]) = [z EXCEPT ![r.user] = r.score]
    BY <1>4 DEF ZAdd, ZSets, Players
  <2>5. dims' = [dims EXCEPT ![r.industry][r.user] = r.score,
                             ![r.region][r.user] = r.score,
                             ![r.size][r.user] = r.score]
    <3> DEFINE new(z) == [z EXCEPT ![r.user] = r.score]
               one == [dims EXCEPT ![r.industry] = new(dims[r.industry])]
               two == [one EXCEPT ![r.region] = new(one[r.region])]
               three == [two EXCEPT ![r.size] = new(two[r.size])]
    <3>1. three = [s \in Segments |-> IF s \in {r.industry, r.region, r.size}
                                      THEN new(dims[s]) ELSE dims[s]]
      <4> HIDE DEF new
      <4> QED  BY <2>1, <2>3
    <3>2. dims' = three
      BY <2>1, <2>2, <2>3, <2>4, <3>1
    <3> QED  BY <3>2
  <2> QED  BY <1>3, <1>4, <1>5, <1>6, <1>8, <2>2, <2>5 DEF Atomic!PutScore, Atomic!Open
<1> QED  BY <1>7, <1>8

LEMMA BulkIsPutScores ==
  ASSUME IInv, Smooth, NEW i \in Requests, SetScoresBulk(i)
  PROVE  Atomic!PutScores(i)
<1>1. WriteAnswered(i, "ZADD_BULK", "ok", [count |-> Cardinality(DOMAIN Validated(req[i].scores))])
  BY DEF SetScoresBulk
<1>2. pc[i] = "ZADD_BULK" /\ UNCHANGED req
  BY <1>1 DEF WriteAnswered, Answered
<1>3. Fits("ZADD_BULK", req[i]) /\ Status[i] = "open" /\ req[i].op = "bulk"
  BY <1>2, WaitingRequest, FitsType DEF Commands, Writes
<1>4. Atomic!Reply(i, [count |-> Cardinality(DOMAIN Validated(req[i].scores))])
  BY <1>1, <1>2, FinishReplies DEF WriteAnswered
<1>5. board' = ZAdd(board, Validated(req[i].scores)) /\ UNCHANGED <<dims, members>>
  BY <1>1 DEF WriteAnswered, Write, Execute, BoardAfter
<1> QED  BY <1>3, <1>4, <1>5, SameRequests, SameCardinality
         DEF Atomic!PutScores, Atomic!Open, ZAdd, Players

LEMMA AddIsIncrement ==
  ASSUME IInv, Smooth, NEW i \in Requests, AddScore(i)
  PROVE  Atomic!Increment(i)
<1> DEFINE r == req[i]
           sum == Plus(board[r.user], r.by)
<1>1. pc[i] = "ZINCRBY" /\ UNCHANGED req
  BY DEF AddScore, WriteAnswered, Answered
<1>2. /\ Fits("ZINCRBY", r) /\ Status[i] = "open"
      /\ r.user \in Players /\ r.op = "incr"
  BY <1>1, WaitingRequest, FitsType DEF Commands, Writes, Fits, OpsOf
<1>3. board[r.user] # Absent
  BY <1>2 DEF Smooth, Fits
<1>4. /\ ZIncrBy(board, r.user, r.by) = [board EXCEPT ![r.user] = sum]
      /\ ZIncrBy(board, r.user, r.by)[r.user] = sum
  BY <1>2, <1>3 DEF ZIncrBy, IInv, TypeOK, ZSets, Players
<1>5. Atomic!Reply(i, [score |-> sum])
  BY <1>1, <1>4, FinishReplies DEF AddScore, WriteAnswered
<1>6. board' = [board EXCEPT ![r.user] = sum] /\ UNCHANGED <<dims, members>>
  BY <1>4 DEF AddScore, WriteAnswered, Write, Execute, BoardAfter
<1> QED  BY <1>2, <1>3, <1>5, <1>6, SameRequests DEF Atomic!Increment, Atomic!Open

LEMMA DeleteIsRemove ==
  ASSUME IInv, Smooth, NEW i \in Requests, DeleteUser(i)
  PROVE  Atomic!Remove(i)
<1> DEFINE r == req[i]
<1>1. pc[i] = "ZREM" /\ UNCHANGED req
  BY DEF DeleteUser, WriteAnswered, Answered
<1>2. /\ Fits("ZREM", r) /\ Status[i] = "open" /\ out[i] = Nothing
      /\ r.user \in Players /\ r.op = "delete"
  BY <1>1, WaitingRequest, FitsType DEF Commands, Writes, Fits, OpsOf
<1>3. board' = ZRem(board, {r.user}) /\ UNCHANGED <<dims, members>>
  BY DEF DeleteUser, WriteAnswered, Write, Execute, BoardAfter
<1>4. board' = [board EXCEPT ![r.user] = Absent]
  BY <1>2, <1>3 DEF ZRem, IInv, TypeOK, ZSets, Players
<1>5. CASE r.user \in Present(board)
  <2>1. Atomic!Reply(i, Nothing)
    BY <1>1, <1>5, FinishReplies DEF DeleteUser, WriteAnswered
  <2> QED  BY <1>2, <1>3, <1>4, <1>5, <2>1, SameBoard DEF Atomic!Remove, Atomic!Open, Nothing
<1>6. CASE r.user \notin Present(board)
  <2>1. Atomic!ReplyNotFound(i)
    BY <1>1, <1>2, <1>6, FinishNotFound DEF DeleteUser, WriteAnswered
  <2>2. board' = board
    BY <1>2, <1>4, <1>6 DEF Present, IInv, TypeOK, ZSets, Players
  <2> QED  BY <1>2, <1>3, <1>6, <2>1, <2>2, SameBoard DEF Atomic!Remove, Atomic!Open
<1> QED  BY <1>5, <1>6

LEMMA ClearIsRemoveAll ==
  ASSUME IInv, Smooth, NEW i \in Requests, DeleteUsers(i) \/ ResetLeaderboard(i)
  PROVE  Atomic!RemoveAll(i)
<1> DEFINE r == req[i]
<1>1. CASE DeleteUsers(i)
  <2>1. pc[i] = "ZREM_BULK" /\ UNCHANGED req
    BY <1>1 DEF DeleteUsers, WriteAnswered, Answered
  <2>2. Fits("ZREM_BULK", r) /\ Status[i] = "open" /\ r.op = "deletes"
    BY <2>1, WaitingRequest DEF Commands, Writes, Fits, OpsOf
  <2>3. Atomic!Reply(i, [count |-> Cardinality(r.users \cap Present(board))])
    BY <1>1, <2>1, FinishReplies DEF DeleteUsers, WriteAnswered
  <2>4. board' = ZRem(board, r.users) /\ UNCHANGED <<dims, members>>
    BY <1>1 DEF DeleteUsers, WriteAnswered, Write, Execute, BoardAfter
  <2> QED  BY <2>2, <2>3, <2>4, SameRequests, SameBoard, SameCardinality
           DEF Atomic!RemoveAll, Atomic!Open, ZRem, Players
<1>2. CASE ResetLeaderboard(i)
  <2>1. pc[i] = "DEL" /\ UNCHANGED req
    BY <1>2 DEF ResetLeaderboard, WriteAnswered, Answered
  <2>2. Fits("DEL", r) /\ Status[i] = "open" /\ r.op = "reset"
    BY <2>1, WaitingRequest DEF Commands, Writes, Fits, OpsOf
  <2>3. Atomic!Reply(i, Nothing)
    BY <1>2, <2>1, FinishReplies DEF ResetLeaderboard, WriteAnswered
  <2>4. board' = EmptyZSet /\ UNCHANGED <<dims, members>>
    BY <1>2 DEF ResetLeaderboard, WriteAnswered, Write, Execute, BoardAfter
  <2>5. EmptyZSet = [p \in Players |-> IF p \in Players THEN Absent ELSE board[p]]
    BY DEF EmptyZSet, Players
  <2> QED  BY <2>2, <2>3, <2>4, <2>5, SameRequests DEF Atomic!RemoveAll, Atomic!Open, Nothing
<1> QED  BY <1>1, <1>2

LEMMA GetRankIsRank ==
  ASSUME IInv, Smooth, NEW i \in Requests, GetRank(i)
  PROVE  Atomic!Rank(i)
<1> DEFINE u == req[i].user
<1>1. pc[i] = "RANK" /\ UNCHANGED <<req, board, dims, members>>
  BY DEF GetRank, Answered, redis
<1>2. /\ Fits("RANK", req[i]) /\ Status[i] = "open" /\ out[i] = Nothing
      /\ req[i].op = "rank"
  BY <1>1, WaitingRequest DEF Commands, Reads, Fits, OpsOf
<1>3. CASE u \in Present(board)
  <2>1. Atomic!Reply(i, [score |-> board[u], rank |-> ZRevRank(board, u) + 1])
    BY <1>1, <1>3, FinishReplies DEF GetRank
  <2>2. ZRevRank(board, u) = Cardinality({p \in Atomic!Listed : Atomic!Above(p, u)})
    BY SameBoard DEF ZRevRank
  <2> QED  BY <1>1, <1>2, <1>3, <2>1, <2>2, SameBoard, SameCardinality DEF Atomic!Rank, Atomic!Open
<1>4. CASE u \notin Present(board)
  <2>1. Atomic!ReplyNotFound(i)
    BY <1>1, <1>2, <1>4, FinishNotFound DEF GetRank
  <2> QED  BY <1>1, <1>2, <1>4, <2>1, SameBoard DEF Atomic!Rank, Atomic!Open
<1> QED  BY <1>3, <1>4

\* get_top_players is two looks; the handler of the dimensions is the same.
LEMMA CountIsCount ==
  ASSUME IInv, Smooth, WholeBoardTraffic, NEW i \in Requests, CountPlayers(i)
  PROVE  Atomic!Count(i)
<1>1. /\ pc[i] = "ZCARD" /\ UNCHANGED <<req, board, dims, members>>
      /\ Finish(i, "ZREVRANGE", [total |-> ZCard(board)])
  BY DEF CountPlayers, Answered, redis
<1>2. Status[i] = "open" /\ req[i].op = "top"
  BY <1>1, WaitingRequest DEF Commands, Reads, Fits, OpsOf, WholeBoardTraffic
<1>3. Status' = [Status EXCEPT ![i] = "counted"]
  BY <1>1, StatusAfter DEF Finish, Seen, IInv
<1>4. ZCard(board) = Atomic!Cardinality(Atomic!Listed)
  BY SameBoard, SameCardinality DEF ZCard
<1>5. out' = [out EXCEPT ![i] = [total |-> Atomic!Cardinality(Atomic!Listed)]]
  BY <1>1, <1>4 DEF Finish
<1> QED  BY <1>1, <1>2, <1>3, <1>5 DEF Atomic!Count, Atomic!Open

LEMMA ListIsTop ==
  ASSUME IInv, Smooth, NEW i \in Requests, ListPlayers(i)
  PROVE  Atomic!Top(i)
<1>1. /\ pc[i] = "ZREVRANGE" /\ UNCHANGED <<req, board, dims, members>>
      /\ Finish(i, "ok", [total |-> out[i].total, entries |-> ZRevRange(board, req[i].limit)])
  BY DEF ListPlayers, Answered, redis
<1>2. Status[i] = "counted" /\ req[i].limit \in Nat /\ board \in ZSets
  BY <1>1, WaitingRequest, FitsType DEF Commands, Reads, IInv, TypeOK
<1>3. Atomic!Reply(i, [total |-> out[i].total, entries |-> ZRevRange(board, req[i].limit)])
  BY <1>1, FinishReplies
<1>4. PICK order \in Atomic!Rankings(req[i].limit) :
        ZRevRange(board, req[i].limit) =
          {[rank |-> k, user |-> order[k], score |-> board[order[k]]] : k \in DOMAIN order}
  BY <1>2, ListingIsRanking
<1> QED  BY <1>1, <1>2, <1>3, <1>4 DEF Atomic!Top

\* Reading the score that is to be incremented is not a step of the board.
LEMMA ReadIsUnseen ==
  ASSUME IInv, Smooth, NEW i \in Requests, ReadScore(i)
  PROVE  UNCHANGED Atomic!avars
<1>1. pc[i] = "ZSCORE" /\ UNCHANGED <<req, out, board, dims, members>>
  BY DEF ReadScore, Answered, redis
<1>2. Fits("ZSCORE", req[i]) /\ Status[i] = "open"
  BY <1>1, WaitingRequest DEF Commands, Reads
<1>3. board[req[i].user] # Absent
  BY <1>2 DEF Smooth, Fits, OpsOf, Commands, Reads
<1>4. pc' = [pc EXCEPT ![i] = "ZINCRBY"]
  BY <1>3 DEF ReadScore
<1>5. Status' = [Status EXCEPT ![i] = "open"]
  BY <1>4, StatusAfter DEF Seen, IInv, Commands, Writes
<1>6. Status' = Status
  BY <1>2, <1>5 DEF Status
<1> QED  BY <1>1, <1>6 DEF Atomic!avars

LEMMA NextAtomic ==
  ASSUME IInv, Smooth, [Next]_vars, ~Faults, WholeBoardTraffic
  PROVE  [Atomic!ANext]_(Atomic!avars)
<1>1. ASSUME NEW i \in Requests, Arrive(i)
      PROVE  Atomic!ANext
  <2>1. PICK r \in Traffic : Accept(i, r) \/ Refuse(i, r) \/ NothingToDo(i, r)
    BY <1>1 DEF Arrive, OptInOrOut, WholeBoardTraffic
  <2> QED  BY <2>1, ArriveIsSubmit DEF Atomic!ANext, WholeBoardTraffic
<1>2. ASSUME NEW i \in Requests, Respond(i)
      PROVE  Atomic!ANext \/ UNCHANGED Atomic!avars
  <2>1. ~CreateScore(i)
    BY DEF CreateScore, WriteAnswered, Answered, Smooth
  <2> QED
    BY <1>2, <2>1, SetIsPut, BulkIsPutScores, AddIsIncrement, DeleteIsRemove, ClearIsRemoveAll,
       GetRankIsRank, CountIsCount, ListIsTop, ReadIsUnseen
    DEF Respond, Atomic!ANext
<1>3. ASSUME NEW i \in Requests PROVE ~Fail(i)
  BY DEF Fail, Resend, GiveUp, LoseConnection, Abandoned
<1>4. ~\E m \in limbo : ExecuteLate(m)
  BY DEF Smooth
<1>5. UNCHANGED vars => UNCHANGED Atomic!avars
  BY DEF vars, redis, locals, Atomic!avars, Status
<1> QED  BY <1>1, <1>2, <1>3, <1>4, <1>5 DEF Next

\* While nothing fails, every request looks like one step on the board and a
\* listing of the whole board like two (leaderboard_service.py:257 and :299): for
\* any players, segments and number of requests, as long as increments are of
\* players who stay.
THEOREM LeaderboardImplementsAtomicBoard ==
  ASSUME ~Faults, IncrementedStay, WholeBoardTraffic
  PROVE  Spec => ImplementsAtomicBoard
<1>1. Init => Smooth
  BY InitSmooth
<1>2. IInv /\ Smooth /\ [Next]_vars => Smooth'
  BY NextSmooth
<1>3. Spec => []Smooth
  BY <1>1, <1>2, Invariance, PTL DEF Spec
<1>4. IInv /\ Smooth /\ [Next]_vars => [Atomic!ANext]_(Atomic!avars)
  BY NextAtomic
<1> QED
  BY <1>3, <1>4, InitAtomic, Invariance, PTL DEF Spec, ImplementsAtomicBoard, Atomic!ASpec
=============================================================================
