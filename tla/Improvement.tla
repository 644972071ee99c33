----------------------------- MODULE Improvement -----------------------------
(***************************************************************************)
(* ImprovementService: a tenant's improvement is stored on four sorted      *)
(* sets, by four ZADDs that are not one transaction, and a ranking is read  *)
(* from one of them.  Callers run on threads of their own; the keys of the  *)
(* segments are validated when each is built, after the earlier ZADDs have  *)
(* been executed.  Redis errors are not translated: they reach the caller.  *)
(*                                                                          *)
(* The client is the one of the leaderboard: a ZADD without an answer is    *)
(* sent again, at most Retries times, and may be executed late.             *)
(***************************************************************************)
EXTENDS ZSet, Sequences

CONSTANTS Industries, Regions, Sizes,
          Unknown,   \* a segment or dimension outside the data contract
          None,      \* a value the request leaves out
          ListLimit, \* the most tenants the HTTP route may be asked for
          Traffic,   \* the requests callers make
          Requests,  \* one identity for each request
          Seed,      \* the boards as earlier stores have left them
          Retries, Faults

VARIABLES rank,   \* the boards: lb:global:improvement, lb:<dimension>:<segment>:improvement
          req,    \* what each request asks
          pc,     \* "new", what it is doing, or how it ended
          at,     \* a store: the place of the board it is writing
          tries,  \* timeouts of its command
          out,    \* a listing: the entries it read
          limbo,  \* ZADDs sent whose answer nobody waits for any more
          rivals  \* history: the stores of its tenant that could still write when a
                  \* store began, and those that have begun since

locals == <<req, pc, at, tries, out>>
vars == <<rank, locals, limbo, rivals>>

Segments == Industries \cup Regions \cup Sizes
Boards == {"global"} \cup Segments
Nothing == [none |-> TRUE]
Places == 1..4

IsRequest(r) ==
  \/ /\ r.op = "store"
     /\ r.tenant \in Members /\ r.current \in Int /\ r.snapshot \in Int
     /\ r.industry \in Industries \cup {Unknown}
     /\ r.region \in Regions \cup {Unknown}
     /\ r.size \in Sizes \cup {Unknown}
  \/ /\ r.op = "list"
     /\ r.dimension \in {"global", "industry", "region", "size", Unknown}
     /\ r.value \in Segments \cup {Unknown, None}
     /\ r.limit \in Int
     /\ r.http \in BOOLEAN   \* asked by the HTTP route, or of the service itself

ASSUME ImprovementAssumption ==
  /\ {Unknown, None, "global"} \cap Segments = {}
  /\ Unknown \notin {None, "global", "industry", "region", "size"}
  /\ Nothing \notin Traffic /\ \A r \in Traffic : IsRequest(r)
  /\ ListLimit \in Nat
  /\ Seed \in [Boards -> [Members -> Int \cup {Absent}]]
  /\ \A s \in Segments : Present(Seed[s]) \subseteq Present(Seed["global"])
  /\ Retries \in Nat
  /\ Faults \in BOOLEAN

Copies == [id : Requests, at : Places, try : 0..Retries]
Outcomes == {"stored", "listed", "invalid", "failed"}

TypeOK ==
  /\ rank \in [Boards -> [Members -> Int \cup {Absent}]]
  /\ req \in [Requests -> Traffic \cup {Nothing}]
  /\ pc \in [Requests -> {"new", "store", "list"} \cup Outcomes]
  /\ at \in [Requests -> Places]
  /\ tries \in [Requests -> 0..Retries]
  /\ out \in [Requests -> SUBSET [rank : Nat \ {0}, user : Members, score : Int]]
  /\ limbo \subseteq Copies
  /\ rivals \in [Requests -> SUBSET Requests]

Init ==
  /\ rank = Seed
  /\ req = [i \in Requests |-> Nothing]
  /\ pc = [i \in Requests |-> "new"]
  /\ at = [i \in Requests |-> 1]
  /\ tries = [i \in Requests |-> 0]
  /\ out = [i \in Requests |-> {}]
  /\ limbo = {}
  /\ rivals = [i \in Requests |-> {}]

-----------------------------------------------------------------------------
(* store_improvement                                                        *)

calculate_delta(r) == r.current - r.snapshot

\* The board a store writes at place k, in the order of the code.
BoardAt(r, k) == <<"global", r.industry, r.region, r.size>>[k]

\* Mutant: a board keeps a tenant's best improvement.
ZAddAtKeepingBest(r, k) ==
  LET delta == calculate_delta(r)
      old == rank[BoardAt(r, k)][r.tenant]
  IN rank' = [rank EXCEPT ![BoardAt(r, k)] =
                ZAdd(@, [t \in {r.tenant} |-> IF old # Absent /\ old > delta THEN old ELSE delta])]

ZAddAt(r, k) ==
  rank' = [rank EXCEPT ![BoardAt(r, k)] = ZAdd(@, [t \in {r.tenant} |-> calculate_delta(r)])]

IsStore(i) == pc[i] # "new" /\ req[i].op = "store"
MayWrite(i) == pc[i] = "store" \/ \E m \in limbo : m.id = i
Stores(tenant) == {j \in Requests : IsStore(j) /\ req[j].tenant = tenant}

BeginStore(i, r) ==
  /\ pc[i] = "new"
  /\ r.op = "store"
  /\ req' = [req EXCEPT ![i] = r]
  /\ pc' = [pc EXCEPT ![i] = "store"]
  /\ rivals' = [j \in Requests |->
                  IF j = i THEN {s \in Stores(r.tenant) : MayWrite(s)}
                  ELSE IF j \in Stores(r.tenant) THEN rivals[j] \cup {i}
                  ELSE rivals[j]]
  /\ UNCHANGED <<rank, at, tries, out, limbo>>

\* A ZADD is executed and answered; the next key is built before the next ZADD,
\* and a segment it refuses ends the store where it is.
StoreOnBoard(i) ==
  LET r == req[i]
      next == at[i] + 1
  IN /\ pc[i] = "store"
     /\ ZAddAt(r, at[i])
     /\ \/ at[i] = 4 /\ pc' = [pc EXCEPT ![i] = "stored"] /\ UNCHANGED <<at, tries>>
        \/ /\ at[i] < 4 /\ BoardAt(r, next) \in Segments
           /\ at' = [at EXCEPT ![i] = next]
           /\ tries' = [tries EXCEPT ![i] = 0]
           /\ UNCHANGED pc
        \/ /\ at[i] < 4 /\ BoardAt(r, next) \notin Segments
           /\ pc' = [pc EXCEPT ![i] = "invalid"]
           /\ UNCHANGED <<at, tries>>
     /\ UNCHANGED <<req, out, limbo, rivals>>

-----------------------------------------------------------------------------
(* get_improvement and its handler                                          *)

SegmentsOf(dimension) == CASE dimension = "industry" -> Industries
                           [] dimension = "region" -> Regions
                           [] dimension = "size" -> Sizes
                           [] OTHER -> {}
ValidListing(r) ==
  /\ r.dimension = "global" \/ r.value \in SegmentsOf(r.dimension)
  /\ r.http => r.limit \in 1..ListLimit

BeginList(i, r) ==
  /\ pc[i] = "new"
  /\ r.op = "list"
  /\ req' = [req EXCEPT ![i] = r]
  /\ pc' = [pc EXCEPT ![i] = IF ValidListing(r) THEN "list" ELSE "invalid"]
  /\ UNCHANGED <<rank, at, tries, out, limbo, rivals>>

\* ZREVRANGE 0 max(limit - 1, 0): whoever asks the service for nobody gets one.
Length(limit) == IF limit > 1 THEN limit ELSE 1

\* Mutant: ZREVRANGE to limit, not to limit - 1.
ListBoardOneMore(i) ==
  LET r == req[i]
      board == IF r.dimension = "global" THEN "global" ELSE r.value
  IN /\ pc[i] = "list"
     /\ pc' = [pc EXCEPT ![i] = "listed"]
     /\ out' = [out EXCEPT ![i] = ZRevRange(rank[board], r.limit + 1)]
     /\ UNCHANGED <<rank, req, at, tries, limbo, rivals>>

ListBoard(i) ==
  LET r == req[i]
      board == IF r.dimension = "global" THEN "global" ELSE r.value
  IN /\ pc[i] = "list"
     /\ pc' = [pc EXCEPT ![i] = "listed"]
     /\ out' = [out EXCEPT ![i] = ZRevRange(rank[board], Length(r.limit))]
     /\ UNCHANGED <<rank, req, at, tries, limbo, rivals>>

-----------------------------------------------------------------------------
(* The connection.                                                          *)

\* The answer does not come; a ZADD may still be on its way.
Abandoned(i) ==
  /\ Faults
  /\ pc[i] \in {"store", "list"}
  /\ limbo' = IF pc[i] = "store" THEN limbo \cup {[id |-> i, at |-> at[i], try |-> tries[i]]} ELSE limbo
  /\ UNCHANGED <<rank, req, out, rivals>>

\* Mutants: one repetition too many; a count that starts again at the limit.
ResendOnceMore(i) ==
  tries[i] <= Retries /\ Abandoned(i) /\ tries' = [tries EXCEPT ![i] = @ + 1]
                      /\ UNCHANGED <<pc, at>>
ResendForever(i) ==
  /\ Abandoned(i)
  /\ tries' = [tries EXCEPT ![i] = IF @ < Retries THEN @ + 1 ELSE 0]
  /\ UNCHANGED <<pc, at>>

Resend(i) ==
  /\ tries[i] < Retries
  /\ Abandoned(i)
  /\ tries' = [tries EXCEPT ![i] = @ + 1]
  /\ UNCHANGED <<pc, at>>

\* Mutant: a store goes on with the next board.
FailSilently(i) ==
  /\ Abandoned(i)
  /\ IF pc[i] = "store" /\ at[i] < 4
     THEN at' = [at EXCEPT ![i] = @ + 1] /\ UNCHANGED pc
     ELSE pc' = [pc EXCEPT ![i] = "failed"] /\ UNCHANGED at
  /\ UNCHANGED tries

\* The error of redis-py reaches the caller as it is.
Fail(i) ==
  /\ Abandoned(i)
  /\ pc' = [pc EXCEPT ![i] = "failed"]
  /\ UNCHANGED <<at, tries>>

\* Redis executes a ZADD nobody waits for.
ExecuteLate(m) ==
  /\ ZAddAt(req[m.id], m.at)
  /\ limbo' = limbo \ {m}
  /\ UNCHANGED <<locals, rivals>>

-----------------------------------------------------------------------------
Respond(i) == StoreOnBoard(i) \/ ListBoard(i)

Next == \/ \E i \in Requests : \/ \E r \in Traffic : BeginStore(i, r) \/ BeginList(i, r)
                               \/ Respond(i) \/ Resend(i) \/ Fail(i)
        \/ \E m \in limbo : ExecuteLate(m)

Spec == Init /\ [][Next]_vars

\* The socket timeout bounds every wait.
FairSpec == Spec /\ \A i \in Requests : WF_vars(Respond(i) \/ Resend(i) \/ Fail(i))

-----------------------------------------------------------------------------
(* Properties.                                                              *)

\* Who is ranked in a segment is ranked globally, however a store ends: the
\* global board is written first, and the next ZADD waits for its answer.
SegmentsWithinGlobal ==
  \A s \in Segments : Present(rank[s]) \subseteq Present(rank["global"])

\* The places of the boards a store has written, however it ended.
WrittenPlaces(i) == 1..(IF pc[i] \in {"stored", "invalid"} THEN at[i] ELSE at[i] - 1)

\* The four ZADDs are no transaction, so stores of a tenant that meet may leave
\* its boards in disagreement (improvement_service.py:53), but that is all: each
\* board a store has written shows its delta or the delta of a store of the tenant
\* that met it or came later.  Nothing of an earlier store comes back, by a late
\* copy either, and a store without rivals is stored as a whole.
OnlyRivalsOverwrite ==
  \A i \in Requests : IsStore(i) =>
    \A k \in WrittenPlaces(i) :
      LET board == BoardAt(req[i], k)
      IN \E j \in {i} \cup rivals[i] :
           /\ \E n \in 1..at[j] : BoardAt(req[j], n) = board
           /\ rank[board][req[i].tenant] = calculate_delta(req[j])

\* The entries of a listing are ranked by improvement: from 1, without gaps, and
\* nobody ranks above a tenant that has improved more.  They are no more than
\* asked for, but for the one a call of the service gets that asks for none.
ListingIsRanked ==
  \A i \in Requests :
    pc[i] = "listed" =>
      /\ {e.rank : e \in out[i]} = 1..Cardinality(out[i])
      /\ \/ Cardinality(out[i]) <= req[i].limit
         \/ ~req[i].http /\ Cardinality(out[i]) <= 1
      /\ \A e, f \in out[i] : e.rank < f.rank => e.score >= f.score

\* Every request ends.
EveryRequestEnds == \A i \in Requests : pc[i] # "new" ~> pc[i] \in Outcomes
=============================================================================
