----------------------------- MODULE AtomicBoard -----------------------------
(***************************************************************************)
(* What the leaderboard promises its clients when nothing fails: each       *)
(* request is one step on one board, somewhere between the moment it is     *)
(* sent and the moment it is answered, and the answer describes that step.  *)
(* Only a listing takes two looks at the board, one for the number of       *)
(* players and a later one for the ranking.  The operations are stated by   *)
(* their meaning for scores and ranks, without the Redis commands they are  *)
(* made of.                                                                 *)
(***************************************************************************)
EXTENDS LeaderboardRequests

CONSTANTS Requests, Seed

VARIABLES board, dims, members, req, status, answer

avars == <<board, dims, members, req, status, answer>>

AInit ==
  /\ board = Seed
  /\ dims = [s \in Segments |-> [p \in Players |-> Absent]]
  /\ members = [t \in Tenants |-> {}]
  /\ req = [i \in Requests |-> [none |-> TRUE]]
  /\ status = [i \in Requests |-> "new"]
  /\ answer = [i \in Requests |-> [none |-> TRUE]]

\* p is ranked above q.
Above(p, q) == board[p] > board[q] \/ (board[p] = board[q] /\ p > q)
Listed == {p \in Players : board[p] # Absent}

\* The first players of the board, best first, at most limit of them.
Rankings(limit) ==
  LET size == IF limit < Cardinality(Listed) THEN limit ELSE Cardinality(Listed)
  IN {order \in [1..size -> Listed] :
        /\ \A j, k \in 1..size : j < k => Above(order[j], order[k])
        /\ \A q \in Listed : (\E k \in 1..size : order[k] = q)
                              \/ \A k \in 1..size : Above(order[k], q)}

Submit(i, r) ==
  /\ status[i] = "new"
  /\ Valid(r)
  /\ req' = [req EXCEPT ![i] = r]
  /\ status' = [status EXCEPT ![i] = "open"]
  /\ UNCHANGED <<board, dims, members, answer>>

\* Refused, or nothing to do: no step on the board.
Decline(i, r) ==
  /\ status[i] = "new"
  /\ req' = [req EXCEPT ![i] = r]
  /\ \/ ~Valid(r) /\ status' = [status EXCEPT ![i] = "invalid"] /\ UNCHANGED answer
     \/ /\ IsEmptyBatch(r)
        /\ status' = [status EXCEPT ![i] = "ok"]
        /\ answer' = [answer EXCEPT ![i] = [count |-> 0]]
  /\ UNCHANGED <<board, dims, members>>

Open(i, ops) == status[i] = "open" /\ req[i].op \in ops

Reply(i, a) ==
  /\ status' = [status EXCEPT ![i] = "ok"]
  /\ answer' = [answer EXCEPT ![i] = a]
  /\ UNCHANGED req

ReplyNotFound(i) ==
  /\ status' = [status EXCEPT ![i] = "notfound"]
  /\ UNCHANGED <<req, answer>>

PutScore(i) ==
  LET r == req[i]
  IN /\ Open(i, {"score"})
     /\ Reply(i, [score |-> r.score])
     /\ board' = [board EXCEPT ![r.user] = r.score]
     /\ IF r.tenant = None
        THEN UNCHANGED <<dims, members>>
        ELSE /\ dims' = [dims EXCEPT ![r.industry][r.user] = r.score,
                                     ![r.region][r.user] = r.score,
                                     ![r.size][r.user] = r.score]
             /\ members' = [members EXCEPT ![r.tenant] = @ \cup {r.user}]

PutScores(i) ==
  LET new == Validated(req[i].scores)
  IN /\ Open(i, {"bulk"})
     /\ Reply(i, [count |-> Cardinality(DOMAIN new)])
     /\ board' = [p \in Players |-> IF p \in DOMAIN new THEN new[p] ELSE board[p]]
     /\ UNCHANGED <<dims, members>>

Increment(i) ==
  LET r == req[i]
      new == IF board[r.user] = Absent THEN r.by ELSE Plus(board[r.user], r.by)
  IN /\ Open(i, {"incr"})
     /\ Reply(i, [score |-> new])
     /\ board' = [board EXCEPT ![r.user] = new]
     /\ UNCHANGED <<dims, members>>

Remove(i) ==
  /\ Open(i, {"delete"})
  /\ IF req[i].user \in Listed
     THEN Reply(i, [none |-> TRUE]) /\ board' = [board EXCEPT ![req[i].user] = Absent]
     ELSE ReplyNotFound(i) /\ UNCHANGED board
  /\ UNCHANGED <<dims, members>>

RemoveAll(i) ==
  LET r == req[i]
      gone == IF r.op = "reset" THEN Players ELSE r.users
  IN /\ Open(i, {"reset", "deletes"})
     /\ \/ r.op = "reset" /\ Reply(i, [none |-> TRUE])
        \/ r.op = "deletes" /\ Reply(i, [count |-> Cardinality(gone \cap Listed)])
     /\ board' = [p \in Players |-> IF p \in gone THEN Absent ELSE board[p]]
     /\ UNCHANGED <<dims, members>>

Rank(i) ==
  LET u == req[i].user
  IN /\ Open(i, {"rank"})
     /\ IF u \in Listed
        THEN Reply(i, [score |-> board[u],
                       rank |-> Cardinality({p \in Listed : Above(p, u)}) + 1])
        ELSE ReplyNotFound(i)
     /\ UNCHANGED <<board, dims, members>>

\* The two looks of a listing: the players are counted at one moment and the
\* ranking is the whole order of the board, cut at the limit, at a later one.
Count(i) ==
  /\ Open(i, {"top"})
  /\ status' = [status EXCEPT ![i] = "counted"]
  /\ answer' = [answer EXCEPT ![i] = [total |-> Cardinality(Listed)]]
  /\ UNCHANGED <<board, dims, members, req>>

Top(i) ==
  /\ status[i] = "counted"
  /\ \E order \in Rankings(req[i].limit) :
       Reply(i, [total |-> answer[i].total,
                 entries |-> {[rank |-> k, user |-> order[k], score |-> board[order[k]]] :
                                k \in DOMAIN order}])
  /\ UNCHANGED <<board, dims, members>>

ANext == \E i \in Requests :
           \/ \E r \in Traffic : Submit(i, r) \/ Decline(i, r)
           \/ PutScore(i) \/ PutScores(i) \/ Increment(i)
           \/ Remove(i) \/ RemoveAll(i) \/ Rank(i) \/ Count(i) \/ Top(i)

ASpec == AInit /\ [][ANext]_avars
=============================================================================
