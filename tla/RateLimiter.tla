----------------------------- MODULE RateLimiter -----------------------------
(***************************************************************************)
(* check_rate_limit: a counter in Redis for every client address and        *)
(* calendar minute, INCR by each request and given an expiry by the first.  *)
(* A request reads the clock, then waits for Redis as long as it takes: the *)
(* client of this module has no socket timeout, and nothing is repeated.    *)
(*                                                                          *)
(* INCR and EXPIRE are two commands.  A request is cut off when its process *)
(* stops or its connection breaks, before or after Redis executes the       *)
(* command it waits for.  The hosts and Redis share one clock, and Redis    *)
(* keeps its data.                                                          *)
(***************************************************************************)
EXTENDS Integers, Functions

CONSTANTS Clients,                \* client addresses
          Slots,                  \* requests at a time
          RATE_LIMIT_PER_MINUTE,
          Minute,                 \* clock ticks in a minute
          LastMinute,             \* bound: the clock stops after this minute
          MaxAsked                \* bound: requests in all

ASSUME RateLimiterAssumption ==
  /\ RATE_LIMIT_PER_MINUTE \in Nat \ {0}
  /\ Minute \in Nat \ {0}
  /\ LastMinute \in Nat /\ MaxAsked \in Nat

VARIABLES minute, second,  \* the clock
          counter,         \* Redis: the value of each key, 0 when there is none
          ttl,             \* Redis: ticks until it expires, 0 when it does not
          slot,            \* the request in each slot
          asked,           \* history: requests for each key
          admitted,        \* history: requests counted within their minute and not refused
          cut              \* history: keys whose first request was cut off before EXPIRE

clock == <<minute, second>>
limiterVars == <<clock, counter, ttl, slot, asked, admitted, cut>>

\* rate_limit:<client_ip>:<minute>
Minutes == 0..LastMinute
Keys == Clients \X Minutes
Idle == [is |-> "idle"]
Requests == [is : {"incr", "expire", "refused"}, key : Keys]

LimiterTypeOK ==
  /\ minute \in Minutes /\ second \in 0..Minute - 1
  /\ counter \in [Keys -> Nat]
  /\ ttl \in [Keys -> 0..Minute]
  /\ slot \in [Slots -> Requests \cup {Idle}]
  /\ asked \in [Keys -> Nat]
  /\ admitted \in [Keys -> Nat]
  /\ cut \subseteq Keys

LimiterInit ==
  /\ minute = 0 /\ second = 0
  /\ counter = [k \in Keys |-> 0]
  /\ ttl = [k \in Keys |-> 0]
  /\ slot = [r \in Slots |-> Idle]
  /\ asked = [k \in Keys |-> 0]
  /\ admitted = [k \in Keys |-> 0]
  /\ cut = {}

-----------------------------------------------------------------------------
Becomes(r, is) == slot' = [slot EXCEPT ![r] = [is |-> is, key |-> slot[r].key]]
Leaves(r) == slot' = [slot EXCEPT ![r] = Idle]
Waiting(r, for) == slot[r].is = for

\* Mutant: one counter for all clients.
ArriveOfAnyone(r, c) ==
  LET any == CHOOSE d \in Clients : TRUE
  IN /\ slot[r].is \notin {"incr", "expire"}
     /\ FoldFunction(+, 0, asked) < MaxAsked
     /\ slot' = [slot EXCEPT ![r] = [is |-> "incr", key |-> <<any, minute>>]]
     /\ asked' = [asked EXCEPT ![<<c, minute>>] = @ + 1]
     /\ UNCHANGED <<clock, counter, ttl, admitted, cut>>

\* current_minute = int(time.time() // 60), and the key.
Arrive(r, c) ==
  /\ slot[r].is \notin {"incr", "expire"}
  /\ FoldFunction(+, 0, asked) < MaxAsked
  /\ slot' = [slot EXCEPT ![r] = [is |-> "incr", key |-> <<c, minute>>]]
  /\ asked' = [asked EXCEPT ![<<c, minute>>] = @ + 1]
  /\ UNCHANGED <<clock, counter, ttl, admitted, cut>>

\* Redis executes the INCR of a request.
Counted(r) ==
  /\ Waiting(r, "incr")
  /\ counter' = [counter EXCEPT ![slot[r].key] = @ + 1]
  /\ UNCHANGED <<clock, ttl, asked>>

\* A request counts as let through when Redis executes its INCR within the
\* minute the request read from the clock.
Admit(k) == admitted' = [admitted EXCEPT ![k] = IF k[2] = minute THEN @ + 1 ELSE @]

\* Mutant: nobody sets the expiry.
IncrFirstWithoutExpiry(r) ==
  /\ Counted(r)
  /\ counter[slot[r].key] = 0
  /\ Leaves(r)
  /\ Admit(slot[r].key)
  /\ UNCHANGED cut

\* The count is 1, within the limit: the expiry is next.
IncrFirst(r) ==
  /\ Counted(r)
  /\ counter[slot[r].key] = 0
  /\ Becomes(r, "expire")
  /\ Admit(slot[r].key)
  /\ UNCHANGED cut

IncrAdmit(r) ==
  /\ Counted(r)
  /\ counter[slot[r].key] \in 1..RATE_LIMIT_PER_MINUTE - 1
  /\ Leaves(r)
  /\ Admit(slot[r].key)
  /\ UNCHANGED cut

\* 429.
IncrRefuse(r) ==
  /\ Counted(r)
  /\ counter[slot[r].key] >= RATE_LIMIT_PER_MINUTE
  /\ Becomes(r, "refused")
  /\ UNCHANGED <<admitted, cut>>

\* Mutant: the expiry is one tick short of a minute.
ExpireEarly(r) ==
  /\ Waiting(r, "expire")
  /\ ttl' = [ttl EXCEPT ![slot[r].key] = Minute - 1]
  /\ Leaves(r)
  /\ UNCHANGED <<clock, counter, asked, admitted, cut>>

\* EXPIRE key 60.
Expire(r) ==
  /\ Waiting(r, "expire")
  /\ ttl' = [ttl EXCEPT ![slot[r].key] = Minute]
  /\ Leaves(r)
  /\ UNCHANGED <<clock, counter, asked, admitted, cut>>

-----------------------------------------------------------------------------
(* Failures: the request ends with an exception that is not handled.        *)

\* The command is not executed.
CutBefore(r) ==
  /\ slot[r].is \in {"incr", "expire"}
  /\ Leaves(r)
  /\ cut' = IF slot[r].is = "expire" THEN cut \cup {slot[r].key} ELSE cut
  /\ UNCHANGED <<clock, counter, ttl, asked, admitted>>

\* The command is executed, its answer is not received.
CutAfterIncr(r) ==
  /\ Counted(r)
  /\ Leaves(r)
  /\ cut' = IF counter[slot[r].key] = 0 THEN cut \cup {slot[r].key} ELSE cut
  /\ UNCHANGED admitted

CutAfterExpire(r) ==
  /\ Waiting(r, "expire")
  /\ ttl' = [ttl EXCEPT ![slot[r].key] = Minute]
  /\ Leaves(r)
  /\ UNCHANGED <<clock, counter, asked, admitted, cut>>

-----------------------------------------------------------------------------
\* The clock, and Redis: a key whose time is over is gone.
Tick ==
  /\ IF second + 1 < Minute
     THEN second' = second + 1 /\ UNCHANGED minute
     ELSE minute < LastMinute /\ second' = 0 /\ minute' = minute + 1
  /\ counter' = [k \in Keys |-> IF ttl[k] = 1 THEN 0 ELSE counter[k]]
  /\ ttl' = [k \in Keys |-> IF ttl[k] = 0 THEN 0 ELSE ttl[k] - 1]
  /\ UNCHANGED <<slot, asked, admitted, cut>>

Incr(r) == IncrFirst(r) \/ IncrAdmit(r) \/ IncrRefuse(r)
Cut(r) == CutBefore(r) \/ CutAfterIncr(r) \/ CutAfterExpire(r)

LimiterNext == \/ Tick
               \/ \E r \in Slots : (\E c \in Clients : Arrive(r, c)) \/ Incr(r) \/ Expire(r) \/ Cut(r)

LimiterSpec == LimiterInit /\ [][LimiterNext]_limiterVars

-----------------------------------------------------------------------------
(* Properties.                                                              *)

\* No counter loses requests before its minute is over: within a calendar
\* minute at most RATE_LIMIT_PER_MINUTE requests of a client get through,
\* however late EXPIRE is executed.  So any 60 seconds let twice as many
\* through at most; a request that Redis counts a minute late is not covered.
MinuteBound == \A k \in Keys : admitted[k] <= RATE_LIMIT_PER_MINUTE

\* A client is refused only after more than the limit of its own requests in
\* the minute at hand: a counter that never expires throttles no later minute,
\* and no other client.
RefusalIsEarned ==
  \A r \in Slots : Waiting(r, "refused") => asked[slot[r].key] > RATE_LIMIT_PER_MINUTE

\* A counter stays for ever only because a request was cut off between INCR and
\* EXPIRE; otherwise whoever is to set its expiry is still there.
LeakOnlyByCut ==
  \A k \in Keys :
    (counter[k] > 0 /\ ttl[k] = 0) =>
      k \in cut \/ \E r \in Slots : Waiting(r, "expire") /\ slot[r].key = k
=============================================================================
