----------------------------- MODULE Leaderboard -----------------------------
(***************************************************************************)
(* LeaderboardService behind its HTTP handlers.  The handlers are plain     *)
(* functions, so FastAPI runs each request on a thread of its own; requests *)
(* meet only in Redis, which executes one command or one MULTI block at a   *)
(* time.  A request is therefore a small state machine over the shared      *)
(* sorted sets, and every command it waits for is a step of its own.        *)
(*                                                                          *)
(* The client is built with retry_on_timeout: a command without an answer   *)
(* is sent again, at most Retries times.  What became of the first copy is  *)
(* unknown: it may have been executed, be executed late, or be lost.        *)
(***************************************************************************)
EXTENDS LeaderboardRequests

CONSTANTS Requests,  \* one identity for each request the instance follows
          Seed,      \* the global board as the instance finds it
          Retries,   \* how often redis-py repeats a command that timed out
          Faults     \* whether the network loses answers

ASSUME LeaderboardAssumption ==
  /\ Seed \in ZSets
  /\ Retries \in Nat
  /\ Faults \in BOOLEAN

VARIABLES board,    \* the sorted set at settings.redis_leaderboard_key
          dims,     \* lb:{industry,region,size}:<segment>:absolute
          members,  \* lb:tenant:<tenant>:members
          req,      \* what each request asks
          pc,       \* "new", the command it waits for, or its outcome
          tries,    \* timeouts of the command it waits for
          out,      \* what it answers, or has read so far
          limbo,    \* commands sent whose answer nobody waits for any more
          ran       \* history: the attempts of its write that took effect

redis == <<board, dims, members>>
locals == <<req, pc, tries, out>>
vars == <<redis, locals, limbo, ran>>

Reads == {"ZSCORE", "ZCARD", "ZREVRANGE", "RANK"}
Writes == {"ZADD", "TENANT_SCORE_UPDATE", "ZADD_BULK", "ZADD_NEW", "ZINCRBY",
           "ZREM", "ZREM_BULK", "DEL"}
Commands == Reads \cup Writes
Failures == {"invalid", "notfound", "timeout", "unavailable", "error"}
Outcomes == Failures \cup {"ok"}

Copies == [id : Requests, cmd : Writes, try : 0..Retries]
Entries == [rank : Nat \ {0}, user : Players, score : Score]   \* PlayerEntry
Nothing == [none |-> TRUE]
Answers == {Nothing} \cup [score : Score] \cup [score : Score, rank : Nat \ {0}]
             \cup [total : Nat] \cup [total : Nat, entries : SUBSET Entries]
             \cup [count : Nat]

TypeOK ==
  /\ board \in ZSets
  /\ dims \in [Segments -> ZSets]
  /\ members \in [Tenants -> SUBSET Players]
  /\ req \in [Requests -> Traffic \cup {Nothing}]
  /\ pc \in [Requests -> {"new"} \cup Commands \cup Outcomes]
  /\ tries \in [Requests -> 0..Retries]
  /\ out \in [Requests -> Answers]
  /\ limbo \subseteq Copies
  /\ ran \in [Requests -> SUBSET (0..Retries)]

Init ==
  /\ board = Seed
  /\ dims = [s \in Segments |-> EmptyZSet]
  /\ members = [t \in Tenants |-> {}]
  /\ req = [i \in Requests |-> Nothing]
  /\ pc = [i \in Requests |-> "new"]
  /\ tries = [i \in Requests |-> 0]
  /\ out = [i \in Requests |-> Nothing]
  /\ limbo = {}
  /\ ran = [i \in Requests |-> {}]

-----------------------------------------------------------------------------
(* What Redis does when it executes a command.                              *)

\* Mutant: the pipeline without its SADD.
TenantScoreUpdateWithoutMember(r) ==
  LET new == [p \in {r.user} |-> r.score]
  IN /\ board' = ZAdd(board, new)
     /\ dims' = [s \in Segments |-> IF s \in {r.industry, r.region, r.size}
                                    THEN ZAdd(dims[s], new) ELSE dims[s]]
     /\ UNCHANGED members

\* Mutant: the segment boards keep a player's best score (ZADD GT).
TenantScoreUpdateKeepingBest(r) ==
  LET best(z) == IF z[r.user] # Absent /\ z[r.user] > r.score THEN z[r.user] ELSE r.score
  IN /\ board' = ZAdd(board, [p \in {r.user} |-> r.score])
     /\ dims' = [s \in Segments |-> IF s \in {r.industry, r.region, r.size}
                                    THEN ZAdd(dims[s], [p \in {r.user} |-> best(dims[s])])
                                    ELSE dims[s]]
     /\ members' = [members EXCEPT ![r.tenant] = @ \cup {r.user}]

\* The pipeline of set_tenant_score: four ZADDs and an SADD in one MULTI.
TenantScoreUpdate(r) ==
  LET new == [p \in {r.user} |-> r.score]
  IN /\ board' = ZAdd(board, new)
     /\ dims' = [s \in Segments |-> IF s \in {r.industry, r.region, r.size}
                                    THEN ZAdd(dims[s], new) ELSE dims[s]]
     /\ members' = [members EXCEPT ![r.tenant] = @ \cup {r.user}]

BoardAfter(cmd, r) ==
  CASE cmd = "ZADD" -> ZAdd(board, [p \in {r.user} |-> r.score])
    [] cmd = "ZADD_BULK" -> ZAdd(board, Validated(r.scores))
    [] cmd = "ZADD_NEW" -> ZAdd(board, [p \in {r.user} |-> r.by])
    [] cmd = "ZINCRBY" -> ZIncrBy(board, r.user, r.by)
    [] cmd = "ZREM" -> ZRem(board, {r.user})
    [] cmd = "ZREM_BULK" -> ZRem(board, r.users)
    [] cmd = "DEL" -> EmptyZSet

\* Every write but the tenant's touches the global board alone.
Execute(cmd, r) ==
  IF cmd = "TENANT_SCORE_UPDATE"
  THEN TenantScoreUpdate(r)
  ELSE board' = BoardAfter(cmd, r) /\ UNCHANGED <<dims, members>>

\* A ZREM that finds nobody is not an effect; any other write is.
TakesEffect(cmd, r) == cmd = "ZREM" => r.user \in Present(board)

\* The attempt number n of request i's write is executed.
Write(i, cmd, n) ==
  /\ Execute(cmd, req[i])
  /\ ran' = [ran EXCEPT ![i] = IF TakesEffect(cmd, req[i]) THEN @ \cup {n} ELSE @]

-----------------------------------------------------------------------------
(* The request.                                                             *)

FirstCommand(r) ==
  CASE r.op = "score" -> IF r.tenant = None THEN "ZADD" ELSE "TENANT_SCORE_UPDATE"
    [] r.op = "bulk" -> "ZADD_BULK"
    [] r.op = "incr" -> "ZSCORE"
    [] r.op \in {"top", "dimension"} -> "ZCARD"
    [] r.op = "rank" -> "RANK"
    [] r.op = "delete" -> "ZREM"
    [] r.op = "deletes" -> "ZREM_BULK"
    [] r.op = "reset" -> "DEL"

Finish(i, outcome, answer) ==
  /\ pc' = [pc EXCEPT ![i] = outcome]
  /\ out' = [out EXCEPT ![i] = answer]

\* The consent handlers call service methods that LeaderboardService does not
\* have: AttributeError, answered with 500.
Consent(r) == r.op \in {"opt-in", "opt-out"}

Accept(i, r) ==
  /\ pc[i] = "new"
  /\ Valid(r) /\ ~Consent(r) /\ ~IsEmptyBatch(r)
  /\ req' = [req EXCEPT ![i] = r]
  /\ pc' = [pc EXCEPT ![i] = FirstCommand(r)]
  /\ UNCHANGED <<redis, tries, out, limbo, ran>>

\* Answered before any command is sent.
Dismiss(i, r, outcome, answer) ==
  /\ pc[i] = "new"
  /\ req' = [req EXCEPT ![i] = r]
  /\ Finish(i, outcome, answer)
  /\ UNCHANGED <<redis, tries, limbo, ran>>

Refuse(i, r) == ~Valid(r) /\ Dismiss(i, r, "invalid", Nothing)
NothingToDo(i, r) == IsEmptyBatch(r) /\ Dismiss(i, r, "ok", [count |-> 0])
OptInOrOut(i, r) == Consent(r) /\ Dismiss(i, r, "error", Nothing)

\* The command request i waits for is executed and its answer arrives in time.
Answered(i, cmd) ==
  /\ pc[i] = cmd
  /\ UNCHANGED <<req, limbo>>

WriteAnswered(i, cmd, outcome, answer) ==
  /\ Answered(i, cmd)
  /\ Write(i, cmd, tries[i])
  /\ Finish(i, outcome, answer)
  /\ UNCHANGED tries

SetScore(i) == WriteAnswered(i, "ZADD", "ok", [score |-> req[i].score])

SetTenantScore(i) ==
  WriteAnswered(i, "TENANT_SCORE_UPDATE", "ok", [score |-> req[i].score])

SetScoresBulk(i) ==
  WriteAnswered(i, "ZADD_BULK", "ok",
                [count |-> Cardinality(DOMAIN Validated(req[i].scores))])

\* Mutant: the test for an absent player is inverted.
ReadScoreInverted(i) ==
  /\ Answered(i, "ZSCORE")
  /\ pc' = [pc EXCEPT ![i] = IF board[req[i].user] = Absent THEN "ZINCRBY" ELSE "ZADD_NEW"]
  /\ tries' = [tries EXCEPT ![i] = 0]
  /\ UNCHANGED <<redis, out, ran>>

\* increment_score, the ZSCORE: decides between creating and adding, and only
\* a new score is validated.
ReadScore(i) ==
  LET r == req[i]
  IN /\ Answered(i, "ZSCORE")
     /\ pc' = [pc EXCEPT ![i] = IF board[r.user] # Absent THEN "ZINCRBY"
                                ELSE IF ValidScore(r.by) THEN "ZADD_NEW"
                                ELSE "invalid"]
     /\ tries' = [tries EXCEPT ![i] = 0]
     /\ UNCHANGED <<redis, out, ran>>

CreateScore(i) == WriteAnswered(i, "ZADD_NEW", "ok", [score |-> req[i].by])

\* Mutant: the sum is validated, but after it has been stored.
AddScoreThenValidate(i) ==
  LET sum == ZIncrBy(board, req[i].user, req[i].by)[req[i].user]
  IN WriteAnswered(i, "ZINCRBY", IF ValidScore(sum) THEN "ok" ELSE "invalid", [score |-> sum])

\* The sum is not validated; that it is negative cannot happen, since no score
\* on the board is and the increment is positive.  "ok" is the return of the
\* service: an infinite sum has been stored and is returned, and that the JSON
\* response then cannot render it is the web framework's.
AddScore(i) ==
  WriteAnswered(i, "ZINCRBY", "ok",
                [score |-> ZIncrBy(board, req[i].user, req[i].by)[req[i].user]])

DeleteUser(i) ==
  WriteAnswered(i, "ZREM",
                IF req[i].user \in Present(board) THEN "ok" ELSE "notfound", Nothing)

\* Mutant: the answer counts the players asked for, not those removed.
DeleteUsersCountingAll(i) ==
  WriteAnswered(i, "ZREM_BULK", "ok", [count |-> Cardinality(req[i].users)])

DeleteUsers(i) ==
  WriteAnswered(i, "ZREM_BULK", "ok",
                [count |-> Cardinality(req[i].users \cap Present(board))])

ResetLeaderboard(i) == WriteAnswered(i, "DEL", "ok", Nothing)

\* get_top_players, for the global endpoint and for every dimension: first the
\* number of players, then, by a second command, the first of them.
CountPlayers(i) ==
  /\ Answered(i, "ZCARD")
  /\ Finish(i, "ZREVRANGE", [total |-> ZCard(board)])
  /\ tries' = [tries EXCEPT ![i] = 0]
  /\ UNCHANGED <<redis, ran>>

\* Mutant: the end of the range, limit - 1, is taken one too low.
ListPlayersOneFewer(i) ==
  /\ Answered(i, "ZREVRANGE")
  /\ Finish(i, "ok", [total |-> out[i].total,
                      entries |-> ZRevRange(board, req[i].limit - 1)])
  /\ UNCHANGED <<redis, tries, ran>>

ListPlayers(i) ==
  /\ Answered(i, "ZREVRANGE")
  /\ Finish(i, "ok", [total |-> out[i].total,
                      entries |-> ZRevRange(board, req[i].limit)])
  /\ UNCHANGED <<redis, tries, ran>>

\* get_rank: ZSCORE and ZREVRANK in one MULTI.
GetRank(i) ==
  LET u == req[i].user
  IN /\ Answered(i, "RANK")
     /\ IF u \in Present(board)
        THEN Finish(i, "ok", [score |-> board[u], rank |-> ZRevRank(board, u) + 1])
        ELSE Finish(i, "notfound", Nothing)
     /\ UNCHANGED <<redis, tries, ran>>

-----------------------------------------------------------------------------
(* The connection.                                                          *)

\* The answer does not come; a write may still be on its way.
Abandoned(i) ==
  /\ Faults
  /\ pc[i] \in Commands
  /\ limbo' = IF pc[i] \in Writes
              THEN limbo \cup {[id |-> i, cmd |-> pc[i], try |-> tries[i]]}
              ELSE limbo
  /\ UNCHANGED <<redis, req, ran>>

\* Mutants: one repetition too many; a count that starts again when it has
\* reached the limit.
ResendOnceMore(i) ==
  tries[i] <= Retries /\ Abandoned(i) /\ tries' = [tries EXCEPT ![i] = @ + 1]
                      /\ UNCHANGED <<pc, out>>
ResendForever(i) ==
  /\ Abandoned(i)
  /\ tries' = [tries EXCEPT ![i] = IF @ < Retries THEN @ + 1 ELSE 0]
  /\ UNCHANGED <<pc, out>>

Resend(i) ==
  /\ tries[i] < Retries
  /\ Abandoned(i)
  /\ tries' = [tries EXCEPT ![i] = @ + 1]
  /\ UNCHANGED <<pc, out>>

\* Mutants: a last timeout that is swallowed; a lost connection that is replaced
\* and the command sent again.
GiveUpSilently(i) ==
  tries[i] = Retries /\ Abandoned(i) /\ Finish(i, "ok", Nothing) /\ UNCHANGED tries
ReconnectAndResend(i) == Abandoned(i) /\ UNCHANGED <<pc, tries, out>>

\* _handle_redis_error: 504 for a timeout, 503 for anything else.
GiveUp(i) ==
  /\ tries[i] = Retries
  /\ Abandoned(i)
  /\ Finish(i, "timeout", Nothing)
  /\ UNCHANGED tries

LoseConnection(i) ==
  /\ Abandoned(i)
  /\ Finish(i, "unavailable", Nothing)
  /\ UNCHANGED tries

\* Redis executes a copy nobody waits for.
ExecuteLate(m) ==
  /\ limbo' = limbo \ {m}
  /\ Write(m.id, m.cmd, m.try)
  /\ UNCHANGED locals

-----------------------------------------------------------------------------
Arrive(i) == \E r \in Traffic : \/ Accept(i, r)
                                \/ Refuse(i, r)
                                \/ NothingToDo(i, r)
                                \/ OptInOrOut(i, r)

Respond(i) == \/ SetScore(i) \/ SetTenantScore(i) \/ SetScoresBulk(i)
              \/ ReadScore(i) \/ CreateScore(i) \/ AddScore(i)
              \/ DeleteUser(i) \/ DeleteUsers(i) \/ ResetLeaderboard(i)
              \/ CountPlayers(i) \/ ListPlayers(i) \/ GetRank(i)

Fail(i) == Resend(i) \/ GiveUp(i) \/ LoseConnection(i)

Next == \/ \E i \in Requests : Arrive(i) \/ Respond(i) \/ Fail(i)
        \/ \E m \in limbo : ExecuteLate(m)

Spec == Init /\ [][Next]_vars

\* The socket timeout bounds every wait: a request that waits for a command is
\* answered or fails.  Nothing makes clients send, or old copies arrive.
FairSpec == Spec /\ \A i \in Requests : WF_vars(Respond(i) \/ Fail(i))
=============================================================================
