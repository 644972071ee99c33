------------------------ MODULE LeaderboardProperties ------------------------
(***************************************************************************)
(* What the leaderboard has to do, and what its documentation says it does. *)
(***************************************************************************)
EXTENDS Leaderboard, FiniteSetsExt

CopiesOf(i) == {m \in limbo : m.id = i}

\* Asks(i, ops): request i has been sent and asks one of the operations ops.
Asks(i, ops) == pc[i] # "new" /\ req[i].op \in ops
WriteOps == {"score", "bulk", "incr", "delete", "deletes", "reset"}

-----------------------------------------------------------------------------
(* Safety, whatever the connection does.                                    *)

\* A write that is answered with success was executed, at least once and by
\* then: no handler answers from anything but Redis's own reply.
AcknowledgedWriteTookEffect ==
  \A i \in Requests :
    (pc[i] = "ok" /\ Asks(i, WriteOps) /\ ~IsEmptyBatch(req[i])) => ran[i] # {}

\* A request that is refused as invalid has not written and never will, not
\* even by a copy still under way: a bulk is validated before any of it is
\* sent, and an increment refused after its ZSCORE has sent no write.
RefusedRequestNeverWrites ==
  \A i \in Requests : pc[i] = "invalid" => ran[i] = {} /\ CopiesOf(i) = {}

\* Only a repeated command can be executed twice: an operation whose last
\* command was not repeated is executed at most once and leaves no copy under
\* way, and a delete that answers 404 then removed nobody.
OnceUnlessRepeated ==
  \A i \in Requests :
    (pc[i] \in {"ok", "notfound"} /\ tries[i] = 0) =>
      /\ CopiesOf(i) = {}
      /\ ran[i] \subseteq {0}
      /\ pc[i] = "notfound" => ran[i] = {}

\* The players on an industry, region or size board are members of some
\* tenant: the pipeline of set_tenant_score is the only writer of both and
\* Redis executes all of it or nothing.
DimensionMembers ==
  \A s \in Segments : \A p \in Present(dims[s]) : \E t \in Tenants : p \in members[t]

\* The players a request may write.
Touches(r) ==
  CASE r.op \in {"score", "incr", "delete"} -> {r.user}
    [] r.op = "bulk" -> DOMAIN Validated(r.scores)
    [] r.op = "deletes" -> r.users
    [] r.op = "reset" -> Players
    [] OTHER -> {}

\* The players that requests with one of the operations ops have written.
Written(ops) ==
  UNION {Touches(req[j]) : j \in {j \in Requests : Asks(j, ops) /\ ran[j] # {}}}
AddOps == {"score", "bulk", "incr"}
RemoveOps == {"delete", "deletes", "reset"}

\* The total and the entries of a listing come from two commands
\* (leaderboard_service.py:299-300) and may disagree, but only by what other
\* requests have written: there are players, as many as the total says, to whom
\* belongs everybody listed whom nobody has added, and of whom a listing that is
\* not full leaves out only players somebody has removed.
TwoLooksDifferByWrites ==
  \A i \in Requests :
    (Asks(i, {"top", "dimension"}) /\ pc[i] = "ok") =>
      LET entries == out[i].entries
          listed == {e.user : e \in entries}
      IN \E counted \in SUBSET Players :
           /\ Cardinality(counted) = out[i].total
           /\ listed \subseteq counted \cup Written(AddOps)
           /\ Cardinality(entries) < req[i].limit =>
                counted \ Written(RemoveOps) \subseteq listed

\* All that clients do to player p is A.
Only(p, A(_)) == \A r \in Traffic : Valid(r) /\ p \in Touches(r) => A(r)
SetByTenant(r) == r.op = "score" /\ r.tenant # None
Incremented(r) == r.op = "incr"

\* The boards agree on a player whose score only tenants set: it is the same on
\* the global board and on one industry, one region and one size board, also
\* when an old copy of a request arrives after a newer request.
TenantMirror ==
  \A p \in Present(board) :
    (Seed[p] = Absent /\ Only(p, SetByTenant)) =>
      \E x \in Industries, y \in Regions, z \in Sizes :
        dims[x][p] = board[p] /\ dims[y][p] = board[p] /\ dims[z][p] = board[p]

\* The increments of p that have been sent and are not refused for what they ask.
IncrementsOf(p) ==
  {i \in Requests : Asks(i, {"incr"}) /\ Valid(req[i]) /\ req[i].user = p}
Points(z, p) == IF z[p] = Absent THEN 0 ELSE z[p]

\* p has what it had, plus every increment acknowledged unless the sum has
\* overflowed, plus at most what was asked for, counted once for each time the
\* command was sent.
ScoreAddsUp(p) ==
  LET sent == IncrementsOf(p)
      given == [i \in sent |-> req[i].by]
      asked == [i \in sent |-> req[i].by * (tries[i] + 1)]
      gain == Points(board, p) - Points(Seed, p)
  IN /\ board[p] # Inf => gain >= SumFunctionOnSet(given, {i \in sent : pc[i] = "ok"})
     /\ gain <= SumFunctionOnSet(asked, sent)

\* A player who is on the board and is only incremented loses no acknowledged
\* increment, whatever increments race and whichever copies arrive late.
AcknowledgedIncrementsCount ==
  \A p \in Players : Seed[p] # Absent /\ Only(p, Incremented) => ScoreAddsUp(p)

\* An infinite score comes from an increment, whose sum increment_score does not
\* validate (leaderboard_service.py:262): no write with a score of its own, late
\* copies included, stores one, and the boards of the segments never have one.
InfinityOnlyAdded ==
  /\ \A s \in Segments : \A p \in Players : dims[s][p] # Inf
  /\ \A p \in Players :
       (board[p] = Inf /\ Seed[p] # Inf) => \E i \in IncrementsOf(p) : ran[i] # {}

-----------------------------------------------------------------------------
(* Liveness.                                                                *)

\* Every request that has been sent is answered, with an outcome or an error.
EveryRequestAnswered ==
  \A i \in Requests : pc[i] # "new" ~> pc[i] \in Outcomes

-----------------------------------------------------------------------------
(* What the documentation says and the code does not do.                    *)

\* "Atomically increment a player's score using ZINCRBY."
\* (leaderboard_service.py:236): that holds of every player, also of one whom
\* the increments create.
NoIncrementLost == \A p \in Players : Only(p, Incremented) => ScoreAddsUp(p)

\* "Increment a player's score atomically." (api/leaderboard.py:92): an
\* acknowledged increment has been added once.
IncrementAddedOnce ==
  \A i \in Requests :
    (Asks(i, {"incr"}) /\ pc[i] = "ok") => Cardinality(ran[i]) = 1

\* "Absolute rankings by category dimension" (README.md): the ranking of a
\* segment lists players of that segment.
DimensionRanking ==
  \A i \in Requests :
    (Asks(i, {"dimension"}) /\ pc[i] = "ok" /\ req[i].value # None) =>
      \A entry \in out[i].entries : entry.user \in Present(dims[req[i].value])
=============================================================================
