--------------------------- MODULE ServicesProofs ---------------------------
(***************************************************************************)
(* Proofs about the rate limiter, for any clients, requests and limit, and  *)
(* about the benchmark endpoints, for any tables, cohorts, tenants and      *)
(* noise; and, last, that the four services together keep what each keeps.  *)
(***************************************************************************)
EXTENDS MCServices, UserProofs

-----------------------------------------------------------------------------
(* The rate limiter.                                                        *)

\* Keys are of minutes that have come.
KeysOfThePast ==
  /\ \A r \in Slots : slot[r] # Idle => slot[r].key[2] <= minute
  /\ \A k \in Keys : k[2] > minute => ttl[k] = 0 /\ admitted[k] = 0

\* A key of the current minute outlives it: it has no expiry, or one that does
\* not come before the turn of the minute.
CurrentKeysStay ==
  \A k \in Keys : k[2] = minute => ttl[k] = 0 \/ ttl[k] + second >= Minute

\* The counter of the current minute has all who were let through.
CounterHasAll == \A k \in Keys : k[2] = minute => admitted[k] <= counter[k]

\* The requests that wait for their INCR of a key.
Pending(k) == {r \in Slots : slot[r].is = "incr" /\ slot[r].key = k}

\* Requests that are counted and requests that will be are among those asked.
CountedOnce ==
  \A k \in Keys : /\ IsFiniteSet(Pending(k))
                  /\ counter[k] + Cardinality(Pending(k)) <= asked[k]

LimiterInv == /\ LimiterTypeOK
        /\ KeysOfThePast
        /\ CurrentKeysStay
        /\ CounterHasAll
        /\ MinuteBound
        /\ LeakOnlyByCut
        /\ CountedOnce
        /\ RefusalIsEarned

-----------------------------------------------------------------------------
(* Lemmas about slots.                                                      *)

\* What is known of a request that has a key.
LEMMA BusySlot ==
  ASSUME LimiterTypeOK, NEW r \in Slots, slot[r].is \in {"incr", "expire", "refused"}
  PROVE  /\ slot[r] \in Requests
         /\ slot[r].key \in Keys
         /\ slot[r] # Idle
         /\ slot[r].key[2] \in Minutes
BY DEF LimiterTypeOK, Requests, Idle, Keys

\* A request that leaves a slot, or goes on in it with the same key.
LEMMA SlotAfter ==
  ASSUME LimiterTypeOK, NEW r \in Slots, slot[r].is \in {"incr", "expire", "refused"},
         NEW is \in {"expire", "refused"},
         \/ Leaves(r)
         \/ Becomes(r, is)
  PROVE  /\ slot' \in [Slots -> Requests \cup {Idle}]
         /\ \A q \in Slots : q # r => slot'[q] = slot[q]
         /\ slot'[r] # Idle => slot'[r] = [is |-> is, key |-> slot[r].key]
         /\ Leaves(r) => slot'[r] = Idle
         /\ slot'[r].is # "incr"
<1>1. slot[r].key \in Keys
  BY BusySlot
<1>2. CASE Leaves(r)
  BY <1>2 DEF Leaves, LimiterTypeOK, Idle
<1>3. CASE Becomes(r, is)
  <2>1. [is |-> is, key |-> slot[r].key] \in Requests
    BY <1>1 DEF Requests
  <2>2. slot'[r] = [is |-> is, key |-> slot[r].key] /\ slot'[r] # Idle
    BY <1>3 DEF Becomes, LimiterTypeOK, Idle
  <2>3. Leaves(r) => slot'[r] = Idle
    BY DEF Leaves, LimiterTypeOK
  <2> QED  BY <1>3, <2>1, <2>2, <2>3 DEF Becomes, LimiterTypeOK
<1> QED  BY <1>2, <1>3

-----------------------------------------------------------------------------
\* Each action keeps the type invariant.
LEMMA NextKeepsType ==
  ASSUME LimiterTypeOK, LimiterNext
  PROVE  LimiterTypeOK'
<1>0. Minute \in Nat \ {0} /\ LastMinute \in Nat
  BY RateLimiterAssumption
<1>1. CASE Tick
  <2>1. minute' \in Minutes /\ second' \in 0..Minute - 1
    <3>1. minute \in 0..LastMinute /\ second \in 0..Minute - 1
      BY DEF LimiterTypeOK, Minutes
    <3>2. \/ second + 1 < Minute /\ second' = second + 1 /\ minute' = minute
          \/ minute < LastMinute /\ second' = 0 /\ minute' = minute + 1
      BY <1>1 DEF Tick
    <3>3. minute' \in 0..LastMinute
      BY <1>0, <3>1, <3>2
    <3>4. second' \in 0..Minute - 1
      BY <1>0, <3>1, <3>2
    <3> QED  BY <3>3, <3>4 DEF Minutes
  <2>2. counter' \in [Keys -> Nat]
    BY <1>1 DEF Tick, LimiterTypeOK
  <2>3. ttl' \in [Keys -> 0..Minute]
    BY <1>0, <1>1 DEF Tick, LimiterTypeOK
  <2> QED  BY <1>1, <2>1, <2>2, <2>3 DEF Tick, LimiterTypeOK
<1>2. ASSUME NEW r \in Slots, NEW c \in Clients, Arrive(r, c) PROVE LimiterTypeOK'
  <2>1. <<c, minute>> \in Keys
    BY DEF Keys, LimiterTypeOK
  <2>2. [is |-> "incr", key |-> <<c, minute>>] \in Requests
    BY <2>1 DEF Requests
  <2>3. slot' \in [Slots -> Requests \cup {Idle}]
    BY <1>2, <2>2 DEF Arrive, LimiterTypeOK
  <2>4. asked' \in [Keys -> Nat]
    <3>1. asked' = [asked EXCEPT ![<<c, minute>>] = @ + 1]
      BY <1>2 DEF Arrive
    <3>2. asked \in [Keys -> Nat] /\ asked[<<c, minute>>] \in Nat
      BY <2>1 DEF LimiterTypeOK
    <3> QED  BY <2>1, <3>1, <3>2
  <2> QED  BY <1>2, <2>3, <2>4 DEF Arrive, LimiterTypeOK, clock
<1>3. ASSUME NEW r \in Slots, Counted(r),
             Leaves(r) \/ Becomes(r, "expire") \/ Becomes(r, "refused"),
             UNCHANGED admitted \/ Admit(slot[r].key), cut' \subseteq Keys
      PROVE  LimiterTypeOK'
  <2>1. slot[r].is = "incr" /\ slot[r].key \in Keys
    BY <1>3, BusySlot DEF Counted, Waiting
  <2>2. slot' \in [Slots -> Requests \cup {Idle}]
    BY <1>3, <2>1, SlotAfter
  <2>3. counter' \in [Keys -> Nat]
    BY <1>3, <2>1 DEF Counted, LimiterTypeOK
  <2>4. admitted' \in [Keys -> Nat]
    BY <1>3, <2>1 DEF Admit, LimiterTypeOK
  <2> QED  BY <1>3, <2>2, <2>3, <2>4 DEF Counted, LimiterTypeOK, clock
<1>4. ASSUME NEW r \in Slots, Incr(r) PROVE LimiterTypeOK'
  <2>1. cut' \subseteq Keys
    BY <1>4 DEF Incr, IncrFirst, IncrAdmit, IncrRefuse, LimiterTypeOK
  <2> QED  BY <1>3, <1>4, <2>1 DEF Incr, IncrFirst, IncrAdmit, IncrRefuse
<1>5. ASSUME NEW r \in Slots, Expire(r) \/ CutAfterExpire(r) PROVE LimiterTypeOK'
  <2>1. slot[r].is = "expire" /\ slot[r].key \in Keys /\ Leaves(r)
    BY <1>5, BusySlot DEF Expire, CutAfterExpire, Waiting
  <2>2. slot' \in [Slots -> Requests \cup {Idle}]
    BY <2>1, SlotAfter
  <2>3. ttl' \in [Keys -> 0..Minute]
    BY <1>0, <1>5, <2>1 DEF Expire, CutAfterExpire, LimiterTypeOK
  <2> QED  BY <1>5, <2>2, <2>3 DEF Expire, CutAfterExpire, LimiterTypeOK, clock
<1>6. ASSUME NEW r \in Slots, CutBefore(r) PROVE LimiterTypeOK'
  <2>1. slot[r].key \in Keys /\ Leaves(r)
    BY <1>6, BusySlot DEF CutBefore
  <2>2. slot' \in [Slots -> Requests \cup {Idle}]
    BY <1>6, <2>1, SlotAfter DEF CutBefore
  <2>3. cut' \subseteq Keys
    BY <1>6, <2>1 DEF CutBefore, LimiterTypeOK
  <2> QED  BY <1>6, <2>2, <2>3 DEF CutBefore, LimiterTypeOK, clock
<1>7. ASSUME NEW r \in Slots, CutAfterIncr(r) PROVE LimiterTypeOK'
  <2>1. slot[r].key \in Keys /\ Counted(r) /\ Leaves(r) /\ UNCHANGED admitted
    BY <1>7, BusySlot DEF CutAfterIncr, Counted, Waiting
  <2>2. cut' \subseteq Keys
    BY <1>7, <2>1 DEF CutAfterIncr, LimiterTypeOK
  <2> QED  BY <1>3, <2>1, <2>2
<1> QED  BY <1>1, <1>2, <1>4, <1>5, <1>6, <1>7 DEF LimiterNext, Cut

-----------------------------------------------------------------------------
(* The initial states.                                                      *)

LEMMA InitLimiterInv == LimiterInit => LimiterInv
<1> SUFFICES ASSUME LimiterInit PROVE LimiterInv
  OBVIOUS
<1>0. /\ Minute \in Nat \ {0} /\ LastMinute \in Nat /\ RATE_LIMIT_PER_MINUTE \in Nat \ {0}
      /\ Keys = Clients \X (0..LastMinute)
  BY RateLimiterAssumption DEF Keys, Minutes
<1>1. LimiterTypeOK
  BY <1>0 DEF LimiterInit, LimiterTypeOK, Minutes
<1>2. KeysOfThePast /\ CurrentKeysStay /\ CounterHasAll /\ MinuteBound /\ LeakOnlyByCut
  BY <1>0 DEF LimiterInit, KeysOfThePast, CurrentKeysStay, CounterHasAll, MinuteBound, LeakOnlyByCut
<1>3. RefusalIsEarned
  BY DEF LimiterInit, RefusalIsEarned, Waiting, Idle
<1>4. CountedOnce
  <2>1. \A k \in Keys : Pending(k) = {}
    BY DEF LimiterInit, Pending, Idle
  <2> QED  BY <2>1, FS_EmptySet DEF LimiterInit, CountedOnce
<1> QED  BY <1>1, <1>2, <1>3, <1>4 DEF LimiterInv

-----------------------------------------------------------------------------
(* What a step does.                                                        *)

\* A request arrives.
Arrived(r, c) ==
  /\ <<c, minute>> \in Keys
  /\ slot[r].is \notin {"incr", "expire"}
  /\ slot'[r] = [is |-> "incr", key |-> <<c, minute>>]
  /\ \A q \in Slots : q # r => slot'[q] = slot[q]
  /\ asked' = [asked EXCEPT ![<<c, minute>>] = @ + 1]
  /\ UNCHANGED <<minute, second, counter, ttl, admitted, cut>>

LEMMA ArriveStep ==
  ASSUME LimiterTypeOK, NEW r \in Slots, NEW c \in Clients, Arrive(r, c)
  PROVE  Arrived(r, c)
  BY DEF Arrive, Arrived, LimiterTypeOK, Keys, clock

\* An INCR is executed, whether or not its request learns of it.
IncrExecuted(r) ==
  LET k == slot[r].key
  IN /\ slot[r].is = "incr" /\ k \in Keys
     /\ counter' = [counter EXCEPT ![k] = @ + 1]
     /\ slot'[r].is # "incr"
     /\ \A q \in Slots : q # r => slot'[q] = slot[q]
     /\ slot'[r] # Idle => slot'[r].key = k
     /\ slot'[r].is = "refused" => counter[k] >= RATE_LIMIT_PER_MINUTE
     /\ counter[k] = 0 => slot'[r].is = "expire" \/ k \in cut'
     /\ \/ UNCHANGED admitted
        \/ /\ counter[k] < RATE_LIMIT_PER_MINUTE
           /\ admitted' = [admitted EXCEPT ![k] = IF k[2] = minute THEN @ + 1 ELSE @]
     /\ cut \subseteq cut'
     /\ UNCHANGED <<minute, second, ttl, asked>>

LEMMA IncrStep ==
  ASSUME LimiterTypeOK, NEW r \in Slots, Incr(r) \/ CutAfterIncr(r)
  PROVE  IncrExecuted(r)
<1> DEFINE k == slot[r].key
<1>0. Counted(r) /\ slot[r].is = "incr" /\ k \in Keys /\ counter[k] \in Nat
  BY BusySlot DEF Incr, IncrFirst, IncrAdmit, IncrRefuse, CutAfterIncr, Counted, Waiting, LimiterTypeOK
<1>1. counter' = [counter EXCEPT ![k] = @ + 1] /\ UNCHANGED <<minute, second, ttl, asked>>
  BY <1>0 DEF Counted, clock
<1>2. RATE_LIMIT_PER_MINUTE \in Nat \ {0}
  BY RateLimiterAssumption
<1>3. CASE IncrFirst(r)
  <2>1. counter[k] = 0 /\ Becomes(r, "expire") /\ Admit(k) /\ cut' = cut
    BY <1>3 DEF IncrFirst
  <2>2. /\ \A q \in Slots : q # r => slot'[q] = slot[q]
        /\ slot'[r] = [is |-> "expire", key |-> k]
    BY <1>0, <2>1 DEF Becomes, LimiterTypeOK
  <2> QED  BY <1>0, <1>1, <1>2, <2>1, <2>2 DEF IncrExecuted, Admit
<1>4. CASE IncrAdmit(r)
  <2>1. counter[k] \in 1..RATE_LIMIT_PER_MINUTE - 1 /\ Leaves(r) /\ Admit(k) /\ cut' = cut
    BY <1>4 DEF IncrAdmit
  <2>2. /\ \A q \in Slots : q # r => slot'[q] = slot[q]
        /\ slot'[r] = Idle /\ slot'[r].is = "idle"
    BY <1>0, <2>1 DEF Leaves, LimiterTypeOK, Idle
  <2> QED  BY <1>0, <1>1, <1>2, <2>1, <2>2 DEF IncrExecuted, Admit
<1>5. CASE IncrRefuse(r)
  <2>1. counter[k] >= RATE_LIMIT_PER_MINUTE /\ Becomes(r, "refused") /\ UNCHANGED <<admitted, cut>>
    BY <1>5 DEF IncrRefuse
  <2>2. /\ \A q \in Slots : q # r => slot'[q] = slot[q]
        /\ slot'[r] = [is |-> "refused", key |-> k]
    BY <1>0, <2>1 DEF Becomes, LimiterTypeOK
  <2> QED  BY <1>0, <1>1, <1>2, <2>1, <2>2 DEF IncrExecuted
<1>6. CASE CutAfterIncr(r)
  <2>1. /\ Leaves(r) /\ UNCHANGED admitted
        /\ cut' = IF counter[k] = 0 THEN cut \cup {k} ELSE cut
    BY <1>6 DEF CutAfterIncr
  <2>2. /\ \A q \in Slots : q # r => slot'[q] = slot[q]
        /\ slot'[r] = Idle /\ slot'[r].is = "idle"
    BY <1>0, <2>1 DEF Leaves, LimiterTypeOK, Idle
  <2> QED  BY <1>0, <1>1, <1>2, <2>1, <2>2 DEF IncrExecuted
<1> QED  BY <1>3, <1>4, <1>5, <1>6 DEF Incr

\* An EXPIRE is executed, whether or not its request learns of it.
LEMMA ExpireStep ==
  ASSUME LimiterTypeOK, NEW r \in Slots, Expire(r) \/ CutAfterExpire(r)
  PROVE  /\ slot[r].is = "expire" /\ slot[r].key \in Keys
         /\ slot'[r] = Idle
         /\ \A q \in Slots : q # r => slot'[q] = slot[q]
         /\ ttl' = [ttl EXCEPT ![slot[r].key] = Minute]
         /\ UNCHANGED <<minute, second, counter, asked, admitted, cut>>
<1>1. slot[r].is = "expire" /\ slot[r].key \in Keys
  BY BusySlot DEF Expire, CutAfterExpire, Waiting
<1> QED  BY <1>1 DEF Expire, CutAfterExpire, Leaves, LimiterTypeOK, clock

\* A request is cut off before its command is executed.
LEMMA CutBeforeStep ==
  ASSUME LimiterTypeOK, NEW r \in Slots, CutBefore(r)
  PROVE  /\ slot[r].is \in {"incr", "expire"}
         /\ slot'[r] = Idle
         /\ \A q \in Slots : q # r => slot'[q] = slot[q]
         /\ cut \subseteq cut'
         /\ slot[r].is = "expire" => slot[r].key \in cut'
         /\ UNCHANGED <<minute, second, counter, ttl, asked, admitted>>
  BY DEF CutBefore, Leaves, LimiterTypeOK, clock

\* The clock moves on, within the minute or to the next.
LEMMA TickStep ==
  ASSUME LimiterTypeOK, Tick
  PROVE  /\ \/ second' = second + 1 /\ second + 1 < Minute /\ minute' = minute
            \/ second' = 0 /\ second + 1 >= Minute /\ minute' = minute + 1
         /\ \A k \in Keys : /\ counter'[k] = IF ttl[k] = 1 THEN 0 ELSE counter[k]
                            /\ ttl'[k] = IF ttl[k] = 0 THEN 0 ELSE ttl[k] - 1
         /\ UNCHANGED <<slot, asked, admitted, cut>>
<1>1. Minute \in Nat /\ second \in Int
  BY RateLimiterAssumption DEF LimiterTypeOK
<1>2. \/ second' = second + 1 /\ second + 1 < Minute /\ minute' = minute
      \/ second' = 0 /\ second + 1 >= Minute /\ minute' = minute + 1
  BY <1>1 DEF Tick
<1> QED  BY <1>2 DEF Tick

-----------------------------------------------------------------------------
(* The parts of the invariant, one after the other.                         *)

LEMMA KeysOfThePastKept ==
  ASSUME LimiterInv, LimiterNext
  PROVE  KeysOfThePast'
<1> USE DEF LimiterInv, KeysOfThePast
<1>0. /\ minute \in Int /\ \A k \in Keys : k[2] \in Int
      /\ LimiterTypeOK
  BY RateLimiterAssumption DEF LimiterTypeOK, Keys, Minutes
<1>1. CASE Tick
  <2>1. minute' >= minute /\ minute' \in Int
    BY <1>0, <1>1, TickStep
  <2>2. \A r \in Slots : slot[r] # Idle => slot[r].key \in Keys
    BY <1>0 DEF LimiterTypeOK, Requests
  <2>3. \A r \in Slots : slot'[r] # Idle => slot'[r].key[2] <= minute'
    BY <1>0, <1>1, <2>1, <2>2, TickStep
  <2>4. \A k \in Keys : k[2] > minute' => ttl'[k] = 0 /\ admitted'[k] = 0
    BY <1>0, <1>1, <2>1, TickStep
  <2> QED  BY <2>3, <2>4
<1>2. ASSUME NEW r \in Slots, NEW c \in Clients, Arrive(r, c) PROVE KeysOfThePast'
  <2>a. Arrived(r, c)
    BY <1>0, <1>2, ArriveStep
  <2>1. slot'[r].key[2] = minute /\ minute' = minute /\ minute <= minute
    BY <1>0, <2>a DEF Arrived
  <2>2. \A q \in Slots : slot'[q] # Idle => slot'[q].key[2] <= minute'
    BY <1>0, <2>a, <2>1 DEF Arrived
  <2> QED  BY <1>0, <2>a, <2>2 DEF Arrived
<1>3. ASSUME NEW r \in Slots, Incr(r) \/ CutAfterIncr(r) PROVE KeysOfThePast'
  <2>1. IncrExecuted(r)
    BY <1>0, <1>3, IncrStep
  <2>2. slot[r].key[2] <= minute
    BY <1>0, <2>1, BusySlot DEF IncrExecuted
  <2>3. \A q \in Slots : slot'[q] # Idle => slot'[q].key[2] <= minute'
    BY <2>1, <2>2 DEF IncrExecuted
  <2>4. \A k \in Keys : k[2] > minute => admitted'[k] = admitted[k]
    BY <1>0, <2>1, <2>2 DEF IncrExecuted, LimiterTypeOK
  <2> QED  BY <2>1, <2>3, <2>4 DEF IncrExecuted
<1>4. ASSUME NEW r \in Slots, Expire(r) \/ CutAfterExpire(r) PROVE KeysOfThePast'
  <2>1. slot[r].key[2] <= minute
    BY <1>0, <1>4, ExpireStep, BusySlot
  <2>2. \A k \in Keys : k[2] > minute => ttl'[k] = ttl[k]
    BY <1>0, <1>4, <2>1, ExpireStep DEF LimiterTypeOK
  <2> QED  BY <1>0, <1>4, <2>2, ExpireStep
<1>5. ASSUME NEW r \in Slots, CutBefore(r) PROVE KeysOfThePast'
  BY <1>0, <1>5, CutBeforeStep
<1> QED  BY <1>1, <1>2, <1>3, <1>4, <1>5 DEF LimiterNext, Cut

\* An expiry set in a minute is a whole minute away, and a tick takes as much
\* from it as from the rest of the minute.
LEMMA CurrentKeysStayKept ==
  ASSUME LimiterInv, LimiterNext
  PROVE  CurrentKeysStay'
<1> USE DEF LimiterInv, CurrentKeysStay
<1>0. /\ LimiterTypeOK
      /\ minute \in Int /\ second \in Nat /\ Minute \in Nat \ {0}
      /\ \A k \in Keys : ttl[k] \in Nat /\ k[2] \in Int
  BY RateLimiterAssumption DEF LimiterTypeOK, Keys, Minutes
<1>1. CASE Tick
  <2> SUFFICES ASSUME NEW k \in Keys, k[2] = minute'
               PROVE  ttl'[k] = 0 \/ ttl'[k] + second' >= Minute
    OBVIOUS
  <2>1. ttl'[k] = IF ttl[k] = 0 THEN 0 ELSE ttl[k] - 1
    BY <1>0, <1>1, TickStep
  <2>2. CASE minute' = minute /\ second' = second + 1
    BY <1>0, <2>1, <2>2
  <2>3. CASE minute' = minute + 1
    <3>1. k[2] > minute
      BY <1>0, <2>3
    <3> QED  BY <2>1, <3>1 DEF KeysOfThePast
  <2> QED  BY <1>0, <1>1, <2>2, <2>3, TickStep
<1>2. ASSUME NEW r \in Slots, NEW c \in Clients, Arrive(r, c) PROVE CurrentKeysStay'
  <2>1. Arrived(r, c)
    BY <1>0, <1>2, ArriveStep
  <2> QED  BY <1>0, <2>1 DEF Arrived
<1>3. ASSUME NEW r \in Slots, Incr(r) \/ CutAfterIncr(r) PROVE CurrentKeysStay'
  BY <1>0, <1>3, IncrStep DEF IncrExecuted
<1>4. ASSUME NEW r \in Slots, Expire(r) \/ CutAfterExpire(r) PROVE CurrentKeysStay'
  <2>1. \A k \in Keys : ttl'[k] = IF k = slot[r].key THEN Minute ELSE ttl[k]
    BY <1>0, <1>4, ExpireStep DEF LimiterTypeOK
  <2> QED  BY <1>0, <1>4, <2>1, ExpireStep
<1>5. ASSUME NEW r \in Slots, CutBefore(r) PROVE CurrentKeysStay'
  BY <1>0, <1>5, CutBeforeStep
<1> QED  BY <1>1, <1>2, <1>3, <1>4, <1>5 DEF LimiterNext, Cut

\* Within the minute no counter expires, so that whoever is let through is on
\* it, and whoever is let through finds less than the limit on it.
LEMMA MinuteBoundKept ==
  ASSUME LimiterInv, LimiterNext
  PROVE  CounterHasAll' /\ MinuteBound'
<1> USE DEF LimiterInv, CounterHasAll, MinuteBound
<1>0. /\ LimiterTypeOK
      /\ minute \in Int /\ second \in Nat /\ second < Minute /\ Minute \in Nat \ {0}
      /\ RATE_LIMIT_PER_MINUTE \in Nat \ {0}
      /\ \A k \in Keys : /\ ttl[k] \in Nat /\ k[2] \in Int
                         /\ admitted[k] \in Nat /\ counter[k] \in Nat
  BY RateLimiterAssumption DEF LimiterTypeOK, Keys, Minutes
<1>1. CASE Tick
  <2>1. MinuteBound'
    BY <1>1, TickStep
  <2> SUFFICES ASSUME NEW k \in Keys, k[2] = minute' PROVE admitted'[k] <= counter'[k]
    BY <2>1
  <2>2. counter'[k] = (IF ttl[k] = 1 THEN 0 ELSE counter[k]) /\ admitted'[k] = admitted[k]
    BY <1>1, TickStep
  <2>3. CASE minute' = minute /\ second + 1 < Minute
    <3>1. ttl[k] # 1
      BY <1>0, <2>3 DEF CurrentKeysStay
    <3> QED  BY <2>2, <2>3, <3>1
  <2>4. CASE minute' = minute + 1
    <3>1. k[2] > minute
      BY <1>0, <2>4
    <3>2. admitted'[k] = 0 /\ counter'[k] \in Nat
      BY <1>0, <2>2, <3>1 DEF KeysOfThePast
    <3> QED  BY <3>2
  <2> QED  BY <1>0, <1>1, <2>3, <2>4, TickStep
<1>2. ASSUME NEW r \in Slots, NEW c \in Clients, Arrive(r, c) PROVE CounterHasAll' /\ MinuteBound'
  <2>1. Arrived(r, c)
    BY <1>0, <1>2, ArriveStep
  <2> QED  BY <1>0, <2>1 DEF Arrived
<1>3. ASSUME NEW r \in Slots, Incr(r) \/ CutAfterIncr(r) PROVE CounterHasAll' /\ MinuteBound'
  <2> DEFINE k == slot[r].key
  <2>1. IncrExecuted(r)
    BY <1>0, <1>3, IncrStep
  <2>2. /\ k \in Keys /\ minute' = minute
        /\ \A j \in Keys : counter'[j] = IF j = k THEN counter[j] + 1 ELSE counter[j]
    BY <1>0, <2>1 DEF IncrExecuted, LimiterTypeOK
  <2>3. CASE admitted' = admitted
    BY <1>0, <2>2, <2>3
  <2>4. CASE /\ counter[k] < RATE_LIMIT_PER_MINUTE
             /\ admitted' = [admitted EXCEPT ![k] = IF k[2] = minute THEN @ + 1 ELSE @]
    <3>1. \A j \in Keys : admitted'[j] = IF j = k /\ k[2] = minute THEN admitted[j] + 1 ELSE admitted[j]
      BY <2>2, <2>4 DEF LimiterTypeOK
    <3> HIDE DEF k
    <3> QED  BY <1>0, <2>2, <2>4, <3>1
  <2> QED  BY <2>1, <2>3, <2>4 DEF IncrExecuted
<1>4. ASSUME NEW r \in Slots, Expire(r) \/ CutAfterExpire(r) PROVE CounterHasAll' /\ MinuteBound'
  BY <1>0, <1>4, ExpireStep
<1>5. ASSUME NEW r \in Slots, CutBefore(r) PROVE CounterHasAll' /\ MinuteBound'
  BY <1>0, <1>5, CutBeforeStep
<1> QED  BY <1>1, <1>2, <1>3, <1>4, <1>5 DEF LimiterNext, Cut

\* Whoever creates a counter sets its expiry, unless it is cut off; nobody else
\* waits with the same key for an INCR that finds nothing.
LEMMA LeakOnlyByCutKept ==
  ASSUME LimiterInv, LimiterNext
  PROVE  LeakOnlyByCut'
<1> USE DEF LimiterInv, LeakOnlyByCut, Waiting
<1>0. /\ LimiterTypeOK
      /\ Minute \in Nat \ {0}
      /\ \A k \in Keys : ttl[k] \in Nat /\ counter[k] \in Nat
  BY RateLimiterAssumption DEF LimiterTypeOK
<1>1. CASE Tick
  <2>1. \A k \in Keys : counter'[k] > 0 /\ ttl'[k] = 0 => counter[k] > 0 /\ ttl[k] = 0
    BY <1>0, <1>1, TickStep
  <2> QED  BY <1>0, <1>1, <2>1, TickStep
<1>2. ASSUME NEW r \in Slots, NEW c \in Clients, Arrive(r, c) PROVE LeakOnlyByCut'
  <2>1. Arrived(r, c)
    BY <1>0, <1>2, ArriveStep
  <2> QED  BY <1>0, <2>1 DEF Arrived
<1>3. ASSUME NEW r \in Slots, Incr(r) \/ CutAfterIncr(r) PROVE LeakOnlyByCut'
  <2>1. IncrExecuted(r)
    BY <1>0, <1>3, IncrStep
  <2> SUFFICES ASSUME NEW k \in Keys, counter'[k] > 0, ttl'[k] = 0
               PROVE  k \in cut' \/ \E q \in Slots : slot'[q].is = "expire" /\ slot'[q].key = k
    OBVIOUS
  <2>2. CASE counter[k] > 0
    <3>1. k \in cut \/ \E q \in Slots : slot[q].is = "expire" /\ slot[q].key = k
      BY <2>1, <2>2 DEF IncrExecuted
    <3>2. \A q \in Slots : slot[q].is = "expire" => q # r /\ slot'[q] = slot[q]
      BY <2>1 DEF IncrExecuted
    <3> QED  BY <2>1, <3>1, <3>2 DEF IncrExecuted
  <2>3. CASE counter[k] = 0
    <3>1. k = slot[r].key
      BY <1>0, <2>1, <2>3 DEF IncrExecuted, LimiterTypeOK
    <3>2. slot'[r].is = "expire" => slot'[r] # Idle
      BY DEF Idle
    <3> QED  BY <2>1, <2>3, <3>1, <3>2 DEF IncrExecuted
  <2> QED  BY <1>0, <2>2, <2>3
<1>4. ASSUME NEW r \in Slots, Expire(r) \/ CutAfterExpire(r) PROVE LeakOnlyByCut'
  <2>1. \A k \in Keys : ttl'[k] = IF k = slot[r].key THEN Minute ELSE ttl[k]
    BY <1>0, <1>4, ExpireStep DEF LimiterTypeOK
  <2>2. \A q \in Slots : slot[q].key # slot[r].key => slot'[q] = slot[q]
    BY <1>0, <1>4, ExpireStep
  <2> QED  BY <1>0, <1>4, <2>1, <2>2, ExpireStep
<1>5. ASSUME NEW r \in Slots, CutBefore(r) PROVE LeakOnlyByCut'
  <2>1. \A q \in Slots : slot[q].is = "expire" => slot'[q] = slot[q] \/ slot[q].key \in cut'
    BY <1>0, <1>5, CutBeforeStep
  <2> QED  BY <1>0, <1>5, <2>1, CutBeforeStep
<1> QED  BY <1>1, <1>2, <1>3, <1>4, <1>5 DEF LimiterNext, Cut

\* A request moves from those asked to those pending to those counted, or drops
\* out; a counter that expires counts less.
LEMMA CountedOnceKept ==
  ASSUME LimiterInv, LimiterNext
  PROVE  CountedOnce'
<1> USE DEF LimiterInv, CountedOnce
<1>0. /\ LimiterTypeOK
      /\ \A k \in Keys : counter[k] \in Nat /\ asked[k] \in Nat
  BY DEF LimiterTypeOK
<1>1. CASE Tick
  <2>1. \A k \in Keys : Pending(k)' = Pending(k)
    BY <1>0, <1>1, TickStep DEF Pending
  <2>2. \A k \in Keys : counter'[k] <= counter[k] /\ counter'[k] \in Nat
    BY <1>0, <1>1, TickStep
  <2>3. \A k \in Keys : Cardinality(Pending(k)) \in Nat
    BY FS_CardinalityType
  <2> QED  BY <1>0, <1>1, <2>1, <2>2, <2>3, TickStep
<1>2. ASSUME NEW r \in Slots, NEW c \in Clients, Arrive(r, c) PROVE CountedOnce'
  <2>a. Arrived(r, c)
    BY <1>0, <1>2, ArriveStep
  <2> SUFFICES ASSUME NEW k \in Keys
               PROVE  IsFiniteSet(Pending(k)') /\ counter'[k] + Cardinality(Pending(k)') <= asked'[k]
    OBVIOUS
  <2>0. IsFiniteSet(Pending(k)) /\ Cardinality(Pending(k)) \in Nat
    BY FS_CardinalityType
  <2>1. CASE k = <<c, minute>>
    <3>1. Pending(k)' = Pending(k) \cup {r} /\ r \notin Pending(k)
      BY <1>0, <2>a, <2>1 DEF Arrived, Pending
    <3>2. /\ IsFiniteSet(Pending(k)')
          /\ Cardinality(Pending(k)') = Cardinality(Pending(k)) + 1
      BY <2>0, <3>1, FS_AddElement
    <3>3. asked'[k] = asked[k] + 1 /\ counter'[k] = counter[k]
      BY <1>0, <2>a, <2>1 DEF Arrived, LimiterTypeOK
    <3> QED  BY <1>0, <2>0, <3>2, <3>3
  <2>2. CASE k # <<c, minute>>
    <3>1. Pending(k)' = Pending(k)
      BY <1>0, <2>a, <2>2 DEF Arrived, Pending
    <3>2. asked'[k] = asked[k] /\ counter'[k] = counter[k]
      BY <1>0, <2>a, <2>2 DEF Arrived, LimiterTypeOK
    <3> QED  BY <2>0, <3>1, <3>2
  <2> QED  BY <2>1, <2>2
<1>3. ASSUME NEW r \in Slots, Incr(r) \/ CutAfterIncr(r) PROVE CountedOnce'
  <2>1. IncrExecuted(r)
    BY <1>0, <1>3, IncrStep
  <2> SUFFICES ASSUME NEW k \in Keys
               PROVE  IsFiniteSet(Pending(k)') /\ counter'[k] + Cardinality(Pending(k)') <= asked'[k]
    OBVIOUS
  <2>0. IsFiniteSet(Pending(k)) /\ Cardinality(Pending(k)) \in Nat
    BY FS_CardinalityType
  <2>2. CASE k = slot[r].key
    <3>1. Pending(k)' = Pending(k) \ {r} /\ r \in Pending(k)
      BY <2>1, <2>2 DEF Pending, IncrExecuted
    <3>2. /\ IsFiniteSet(Pending(k)')
          /\ Cardinality(Pending(k)') = Cardinality(Pending(k)) - 1
      BY <2>0, <3>1, FS_RemoveElement
    <3>3. asked'[k] = asked[k] /\ counter'[k] = counter[k] + 1
      BY <1>0, <2>1, <2>2 DEF IncrExecuted, LimiterTypeOK
    <3> QED  BY <1>0, <2>0, <3>2, <3>3
  <2>3. CASE k # slot[r].key
    <3>1. Pending(k)' = Pending(k)
      BY <2>1, <2>3 DEF Pending, IncrExecuted
    <3>2. asked'[k] = asked[k] /\ counter'[k] = counter[k]
      BY <1>0, <2>1, <2>3 DEF IncrExecuted, LimiterTypeOK
    <3> QED  BY <2>0, <3>1, <3>2
  <2> QED  BY <2>2, <2>3
<1>4. ASSUME NEW r \in Slots, Expire(r) \/ CutAfterExpire(r) PROVE CountedOnce'
  <2>1. \A k \in Keys : Pending(k)' = Pending(k)
    BY <1>0, <1>4, ExpireStep DEF Pending, Idle
  <2> QED  BY <1>0, <1>4, <2>1, ExpireStep
<1>5. ASSUME NEW r \in Slots, CutBefore(r) PROVE CountedOnce'
  <2> SUFFICES ASSUME NEW k \in Keys
               PROVE  IsFiniteSet(Pending(k)') /\ counter'[k] + Cardinality(Pending(k)') <= asked'[k]
    OBVIOUS
  <2>1. Pending(k)' \subseteq Pending(k)
    BY <1>0, <1>5, CutBeforeStep DEF Pending, Idle
  <2>2. /\ IsFiniteSet(Pending(k)') /\ Cardinality(Pending(k)') <= Cardinality(Pending(k))
        /\ Cardinality(Pending(k)) \in Nat /\ Cardinality(Pending(k)') \in Nat
    BY <2>1, FS_Subset, FS_CardinalityType
  <2>3. asked'[k] = asked[k] /\ counter'[k] = counter[k]
    BY <1>0, <1>5, CutBeforeStep
  <2> QED  BY <1>0, <2>2, <2>3
<1> QED  BY <1>1, <1>2, <1>3, <1>4, <1>5 DEF LimiterNext, Cut

\* A request that finds the limit on its counter is one more among those asked.
LEMMA RefusalIsEarnedKept ==
  ASSUME LimiterInv, LimiterNext
  PROVE  RefusalIsEarned'
<1> USE DEF LimiterInv, RefusalIsEarned, Waiting
<1>0. /\ LimiterTypeOK
      /\ RATE_LIMIT_PER_MINUTE \in Nat
      /\ \A k \in Keys : counter[k] \in Nat /\ asked[k] \in Nat
  BY RateLimiterAssumption DEF LimiterTypeOK
<1>k. \A q \in Slots : slot[q].is = "refused" => slot[q].key \in Keys
  BY <1>0, BusySlot
<1>1. CASE Tick
  BY <1>0, <1>1, TickStep
<1>2. ASSUME NEW r \in Slots, NEW c \in Clients, Arrive(r, c) PROVE RefusalIsEarned'
  <2>a. Arrived(r, c)
    BY <1>0, <1>2, ArriveStep
  <2>1. \A k \in Keys : asked'[k] >= asked[k] /\ asked'[k] \in Nat
    BY <1>0, <2>a DEF Arrived, LimiterTypeOK
  <2>2. \A q \in Slots : slot'[q].is = "refused" => slot'[q] = slot[q]
    BY <1>0, <2>a DEF Arrived
  <2> QED  BY <1>0, <1>k, <2>1, <2>2
<1>3. ASSUME NEW r \in Slots, Incr(r) \/ CutAfterIncr(r) PROVE RefusalIsEarned'
  <2> DEFINE k == slot[r].key
  <2>1. IncrExecuted(r)
    BY <1>0, <1>3, IncrStep
  <2>2. k \in Keys /\ r \in Pending(k) /\ asked' = asked
    BY <2>1 DEF IncrExecuted, Pending
  <2>3. counter[k] < asked[k]
    <3>1. IsFiniteSet(Pending(k)) /\ counter[k] + Cardinality(Pending(k)) <= asked[k]
      BY <2>2 DEF CountedOnce
    <3>2. Cardinality(Pending(k)) \in Nat /\ Cardinality(Pending(k)) # 0
      BY <2>2, <3>1, FS_CardinalityType, FS_EmptySet
    <3> HIDE DEF k
    <3> QED  BY <1>0, <2>2, <3>1, <3>2
  <2>4. slot'[r].is = "refused" => asked[k] > RATE_LIMIT_PER_MINUTE
    BY <1>0, <2>1, <2>2, <2>3 DEF IncrExecuted
  <2>5. slot'[r].is = "refused" => slot'[r].key = k
    BY <2>1 DEF IncrExecuted, Idle
  <2> QED  BY <2>1, <2>2, <2>4, <2>5 DEF IncrExecuted
<1>4. ASSUME NEW r \in Slots, Expire(r) \/ CutAfterExpire(r) PROVE RefusalIsEarned'
  BY <1>0, <1>4, ExpireStep DEF Idle
<1>5. ASSUME NEW r \in Slots, CutBefore(r) PROVE RefusalIsEarned'
  BY <1>0, <1>5, CutBeforeStep DEF Idle
<1> QED  BY <1>1, <1>2, <1>3, <1>4, <1>5 DEF LimiterNext, Cut

-----------------------------------------------------------------------------
LEMMA NextKeepsLimiterInv == LimiterInv /\ [LimiterNext]_limiterVars => LimiterInv'
<1> SUFFICES ASSUME LimiterInv, [LimiterNext]_limiterVars PROVE LimiterInv'
  OBVIOUS
<1>1. CASE LimiterNext
  BY <1>1, NextKeepsType, KeysOfThePastKept, CurrentKeysStayKept, MinuteBoundKept,
     LeakOnlyByCutKept, CountedOnceKept, RefusalIsEarnedKept DEF LimiterInv
<1>2. CASE UNCHANGED limiterVars
  BY <1>2 DEF LimiterInv, LimiterTypeOK, KeysOfThePast, CurrentKeysStay, CounterHasAll, MinuteBound,
     LeakOnlyByCut, CountedOnce, Pending, RefusalIsEarned, Waiting, limiterVars, clock
<1> QED  BY <1>1, <1>2

LEMMA LimiterInvariance == LimiterSpec => []LimiterInv
  BY InitLimiterInv, NextKeepsLimiterInv, PTL DEF LimiterSpec

\* The type invariant of the rate limiter.
THEOREM LimiterTypeCorrect == LimiterSpec => []LimiterTypeOK
<1>1. LimiterInv => LimiterTypeOK
  BY DEF LimiterInv
<1> QED  BY <1>1, LimiterInvariance, PTL

\* Within a calendar minute at most the limit gets through, however late EXPIRE
\* is executed (rate_limiter.py:27).
THEOREM MinutesAreBounded == LimiterSpec => []MinuteBound
<1>1. LimiterInv => MinuteBound
  BY DEF LimiterInv
<1> QED  BY <1>1, LimiterInvariance, PTL

\* Nobody is refused without having asked for more than the limit.
THEOREM RefusalsAreEarned == LimiterSpec => []RefusalIsEarned
<1>1. LimiterInv => RefusalIsEarned
  BY DEF LimiterInv
<1> QED  BY <1>1, LimiterInvariance, PTL

\* A counter that never expires is one whose first request was cut off.
THEOREM LeaksOnlyByCuts == LimiterSpec => []LeakOnlyByCut
<1>1. LimiterInv => LeakOnlyByCut
  BY DEF LimiterInv
<1> QED  BY <1>1, LimiterInvariance, PTL

-----------------------------------------------------------------------------
(* The benchmark endpoints.                                                 *)

\* What a step does: it answers a request, and the tables stay.
LEMMA TablesStay ==
  ASSUME [BenchmarkNext]_benchmarkVars
  PROVE  UNCHANGED <<data, history>>
BY DEF BenchmarkNext, benchmarkVars, CreateRefused, create_benchmark, CompareRefused,
       compare_regional_benchmark, Difference, TrendRefused, get_benchmark_trend, TrendAnswered, Replies

\* A record that the repository finds is a row of the table.
LEMMA FoundIsRow ==
  ASSUME NEW cohort, NEW peer \in get_benchmark_aggregate(cohort)
  PROVE  \E k \in DOMAIN data : data[k] = peer /\ data[k].cohort = cohort
BY DEF get_benchmark_aggregate

\* Of a cohort that is answered, the row is large enough and has a median.
LEMMA UsableRow ==
  ASSUME NEW found, Unusable(found) = {}, NEW peer \in found
  PROVE  ~(peer.peer_count < MIN_PEER_GROUP_SIZE) /\ peer.peer_median # Null
BY DEF Unusable

LEMMA NextKeepsBenchmarkType ==
  ASSUME BenchmarkTypeOK, [BenchmarkNext]_benchmarkVars
  PROVE  BenchmarkTypeOK'
<1> DEFINE Request == [to : {"nothing"}] \cup [to : {"create", "compare"}, cohort : Cohorts]
                        \cup [to : {"trend"}, tenant_id : Tenants]
<1>1. data' \in Aggregates /\ history' \in Histories
  BY TablesStay DEF BenchmarkTypeOK
<1>2. ASSUME NEW status \in Statuses, status # 200, NEW request \in Request, Replies(request, Error(status))
      PROVE  BenchmarkTypeOK'
  BY <1>1, <1>2 DEF BenchmarkTypeOK, Replies, Error
<1>3. ASSUME NEW cohort \in Cohorts, CreateRefused(cohort) \/ CompareRefused(cohort)
      PROVE  BenchmarkTypeOK'
  <2>1. CASE CreateRefused(cohort)
    BY <1>2, <2>1 DEF CreateRefused, Statuses
  <2>2. CASE CompareRefused(cohort)
    <3>1. PICK status \in {403, 404, 500} : Replies([to |-> "compare", cohort |-> cohort], Error(status))
      BY <2>2 DEF CompareRefused, Unusable
    <3> QED  BY <1>2, <3>1 DEF Statuses
  <2> QED  BY <1>3, <2>1, <2>2
<1>4. ASSUME NEW cohort \in Cohorts, create_benchmark(cohort)
      PROVE  BenchmarkTypeOK'
  <2>1. PICK peer \in get_benchmark_aggregate(cohort), n25, n50, n75 \in Noises :
          /\ Null \notin Quartiles(peer)
          /\ Replies([to |-> "create", cohort |-> cohort],
                     [status |-> 200, tenant_id |-> peer.cohort, peer_count |-> peer.peer_count,
                      percentile |-> peer.peer_median,
                      peer_25th |-> apply_laplace_noise(peer.peer_25th, n25),
                      peer_median |-> apply_laplace_noise(peer.peer_median, n50),
                      peer_75th |-> apply_laplace_noise(peer.peer_75th, n75)])
    BY <1>4 DEF create_benchmark
  <2>2. peer \in CohortRows
    <3>1. PICK k \in DOMAIN data : data[k] = peer
      BY FoundIsRow
    <3>2. data \in Seq(CohortRows)
      BY BenchmarkAssumption DEF BenchmarkTypeOK
    <3> QED  BY <3>1, <3>2
  <2>3. /\ peer.peer_25th \in Int /\ peer.peer_median \in Int /\ peer.peer_75th \in Int
        /\ n25 \in Int /\ n50 \in Int /\ n75 \in Int
    BY <2>1, <2>2, BenchmarkAssumption DEF CohortRows, Measured, Quartiles
  <2> DEFINE Scale == 0..1000
  <2>4. \A value, noise \in Int : apply_laplace_noise(value, noise) \in Scale
    BY DEF apply_laplace_noise
  <2> HIDE DEF Scale
  <2>5. /\ apply_laplace_noise(peer.peer_25th, n25) \in Scale
        /\ apply_laplace_noise(peer.peer_median, n50) \in Scale
        /\ apply_laplace_noise(peer.peer_75th, n75) \in Scale
    BY <2>3, <2>4
  <2> QED  BY <1>1, <2>1, <2>5 DEF Scale, BenchmarkTypeOK, Replies, Statuses
<1>5. ASSUME NEW cohort \in Cohorts, compare_regional_benchmark(cohort)
      PROVE  BenchmarkTypeOK'
  BY <1>1, <1>5 DEF compare_regional_benchmark, Difference, BenchmarkTypeOK, Replies, Statuses
<1>6. ASSUME NEW tenant \in Tenants, TrendRefused(tenant)
      PROVE  BenchmarkTypeOK'
  BY <1>2, <1>6 DEF TrendRefused, Statuses
<1>7. ASSUME NEW tenant \in Tenants, get_benchmark_trend(tenant)
      PROVE  BenchmarkTypeOK'
  BY <1>1, <1>7 DEF get_benchmark_trend, TrendAnswered, BenchmarkTypeOK, Replies, Statuses
<1>8. CASE UNCHANGED benchmarkVars
  BY <1>8 DEF benchmarkVars, BenchmarkTypeOK
<1> QED  BY <1>3, <1>4, <1>5, <1>6, <1>7, <1>8 DEF BenchmarkNext

\* The tables keep their rows, every answer has a status of the interface, and
\* the published quartiles are scores whatever the noise (benchmark.py:140).
THEOREM BenchmarkTypeCorrect == BenchmarkSpec => []BenchmarkTypeOK
<1>1. BenchmarkInit => BenchmarkTypeOK
  BY DEF BenchmarkInit, BenchmarkTypeOK
<1> QED  BY <1>1, NextKeepsBenchmarkType, PTL DEF BenchmarkSpec

LEMMA NextKeepsSmallUndisclosed ==
  ASSUME BenchmarkTypeOK, SmallCohortsUndisclosed, [BenchmarkNext]_benchmarkVars
  PROVE  SmallCohortsUndisclosed'
<1>1. /\ UNCHANGED data
      /\ \A k \in DOMAIN data : data[k].peer_count \in Int
  <2>1. data \in Seq(CohortRows)
    BY BenchmarkAssumption DEF BenchmarkTypeOK
  <2>2. \A k \in DOMAIN data : data[k] \in CohortRows
    BY <2>1
  <2> QED  BY <2>2, TablesStay DEF CohortRows
<1>2. ASSUME NEW request, NEW status, status # 200, Replies(request, Error(status))
      PROVE  SmallCohortsUndisclosed'
  BY <1>2 DEF Replies, Error, SmallCohortsUndisclosed
<1>3. ASSUME NEW cohort \in Cohorts, CreateRefused(cohort) \/ CompareRefused(cohort)
      PROVE  SmallCohortsUndisclosed'
  BY <1>2, <1>3 DEF CreateRefused, CompareRefused, Unusable
<1>4. ASSUME NEW cohort \in Cohorts, create_benchmark(cohort)
      PROVE  SmallCohortsUndisclosed'
  <2>1. PICK peer \in get_benchmark_aggregate(cohort) :
          /\ peer.peer_count >= 10
          /\ asked_for' = [to |-> "create", cohort |-> cohort]
          /\ answer'.peer_count = peer.peer_count /\ answer'.percentile = peer.peer_median
    BY <1>4 DEF create_benchmark, Replies, MIN_PEER_GROUP_SIZE
  <2>2. PICK k \in DOMAIN data : data[k] = peer /\ data[k].cohort = cohort
    BY FoundIsRow
  <2> QED  BY <1>1, <2>1, <2>2 DEF SmallCohortsUndisclosed
<1>5. ASSUME NEW cohort \in Cohorts, compare_regional_benchmark(cohort)
      PROVE  SmallCohortsUndisclosed'
  <2>1. PICK regional \in get_benchmark_aggregate(cohort), global \in get_global_benchmark :
          /\ asked_for' = [to |-> "compare", cohort |-> cohort]
          /\ answer'.regional_peer_count = regional.peer_count
          /\ answer'.regional_median = regional.peer_median
          /\ answer'.global_peer_count = global.peer_count
          /\ answer'.global_median = global.peer_median
    BY <1>5 DEF compare_regional_benchmark, Difference, Replies
  <2>2. /\ ~(regional.peer_count < MIN_PEER_GROUP_SIZE)
        /\ ~(global.peer_count < MIN_PEER_GROUP_SIZE)
    BY <1>5, UsableRow DEF compare_regional_benchmark
  <2>3. PICK j \in DOMAIN data : data[j] = regional /\ data[j].cohort = cohort
    BY FoundIsRow
  <2>4. PICK k \in DOMAIN data : data[k] = global /\ data[k].cohort = Global
    BY FoundIsRow DEF get_global_benchmark
  <2>5. regional.peer_count >= 10 /\ global.peer_count >= 10
    BY <1>1, <2>2, <2>3, <2>4 DEF MIN_PEER_GROUP_SIZE
  <2> QED  BY <1>1, <2>1, <2>3, <2>4, <2>5 DEF SmallCohortsUndisclosed
<1>6. ASSUME NEW tenant \in Tenants, TrendRefused(tenant) \/ get_benchmark_trend(tenant)
      PROVE  SmallCohortsUndisclosed'
  <2>1. asked_for'.to = "trend"
    BY <1>6 DEF TrendRefused, get_benchmark_trend, TrendAnswered, Replies
  <2> QED  BY <2>1 DEF SmallCohortsUndisclosed
<1>7. CASE UNCHANGED benchmarkVars
  BY <1>7 DEF benchmarkVars, SmallCohortsUndisclosed
<1> QED  BY <1>3, <1>4, <1>5, <1>6, <1>7 DEF BenchmarkNext

\* No answer publishes the figures of a cohort of fewer than ten peers
\* (benchmark.py:200, :337 and :369), for any table: duplicate, missing and
\* small cohorts, a small global one, and metrics that are NULL included.
THEOREM SmallCohortsAreUndisclosed == BenchmarkSpec => []SmallCohortsUndisclosed
<1>1. BenchmarkInit => SmallCohortsUndisclosed
  BY DEF BenchmarkInit, SmallCohortsUndisclosed
<1> QED  BY <1>1, NextKeepsSmallUndisclosed, BenchmarkTypeCorrect, PTL DEF BenchmarkSpec

LEMMA TrendAnswerIsComplete ==
  ASSUME BenchmarkTypeOK, NEW tenant \in Tenants, get_benchmark_trend(tenant)
  PROVE  TrendIsComplete'
<1> DEFINE rows == Trend(tenant)
           n == Cardinality(rows)
<1>1. PICK order \in Sorted(rows) :
        /\ asked_for' = [to |-> "trend", tenant_id |-> tenant]
        /\ answer' = [status |-> 200, trend |-> [k \in DOMAIN order |-> history[order[k]]]]
  BY DEF get_benchmark_trend, TrendAnswered, Replies
<1>2. /\ DOMAIN order = 1..n
      /\ \A k \in 1..n : order[k] \in rows
      /\ \A r \in rows : \E k \in 1..n : order[k] = r
      /\ \A j, k \in 1..n : order[j] = order[k] => j = k
  <2>1. order \in Bijection(1..n, rows)
    BY <1>1 DEF Sorted
  <2> HIDE DEF rows, n
  <2> QED  BY <2>1 DEF Bijection, Injection, Surjection, IsInjective
<1>3. \A r \in rows : /\ r \in DOMAIN history /\ history[r].tenant_id = tenant
                      /\ history[r].days_ago \in Int
  BY BenchmarkAssumption DEF Trend, get_benchmark_history, BenchmarkTypeOK
<1>4. answer'.trend = [k \in 1..n |-> history[order[k]]]
  BY <1>1, <1>2
<1>5. Range(answer'.trend) = {history[r] : r \in rows}
  BY <1>2, <1>4 DEF Range
<1>6. Days(Range(answer'.trend)) = {30, 60, 90}
  BY <1>5 DEF get_benchmark_trend, TrendDays, allowed_days
<1>7. ASSUME NEW j \in 1..n, NEW k \in 1..n, j < k
      PROVE  history[order[j]].days_ago < history[order[k]].days_ago
  <2>1. history[order[j]].days_ago < history[order[k]].days_ago
        \/ history[order[j]].days_ago = history[order[k]].days_ago
    BY <1>1, <1>2, <1>7 DEF Sorted
  <2>2. j \in Int /\ k \in Int /\ order[j] # order[k]
    BY <1>2, <1>7
  <2>3. history[order[j]].days_ago # history[order[k]].days_ago
    BY <1>2, <1>3, <2>2, BenchmarkAssumption DEF BenchmarkTypeOK, OneSnapshotADay
  <2> QED  BY <2>1, <2>3
<1>8. \A k \in 1..n : history[order[k]].tenant_id = tenant
  BY <1>2, <1>3
<1> QED  BY <1>1, <1>4, <1>6, <1>7, <1>8 DEF TrendIsComplete

\* An answered trend is the three days of one tenant, newest first
\* (benchmark.py:462 and :513), for any history that has one snapshot a day.
THEOREM TrendsAreComplete == BenchmarkSpec => []TrendIsComplete
<1>1. BenchmarkInit => TrendIsComplete
  BY DEF BenchmarkInit, TrendIsComplete
<1>2. BenchmarkTypeOK /\ TrendIsComplete /\ [BenchmarkNext]_benchmarkVars => TrendIsComplete'
  <2> SUFFICES ASSUME BenchmarkTypeOK, TrendIsComplete, [BenchmarkNext]_benchmarkVars
               PROVE  TrendIsComplete'
    OBVIOUS
  <2>1. ASSUME NEW cohort \in Cohorts,
               \/ CreateRefused(cohort) \/ create_benchmark(cohort)
               \/ CompareRefused(cohort) \/ compare_regional_benchmark(cohort)
        PROVE  TrendIsComplete'
    <3>1. asked_for'.to # "trend"
      BY <2>1 DEF CreateRefused, create_benchmark, CompareRefused, compare_regional_benchmark,
                  Difference, Replies
    <3> QED  BY <3>1 DEF TrendIsComplete
  <2>2. ASSUME NEW tenant \in Tenants, TrendRefused(tenant)
        PROVE  TrendIsComplete'
    BY <2>2 DEF TrendRefused, Replies, Error, TrendIsComplete
  <2>3. CASE UNCHANGED benchmarkVars
    BY <2>3 DEF benchmarkVars, TrendIsComplete
  <2> QED  BY <2>1, <2>2, <2>3, TrendAnswerIsComplete DEF BenchmarkNext
<1> QED  BY <1>1, <1>2, BenchmarkTypeCorrect, PTL DEF BenchmarkSpec

-----------------------------------------------------------------------------
(* The services together.                                                   *)

\* A step of the services is a step of each of them, or leaves it alone.
LEMMA StepOfEach ==
  ASSUME [Next]_serviceVars
  PROVE  /\ [ProfileNext]_profileVars
         /\ [UserStoreNext]_userVars
         /\ [LimiterNext]_limiterVars
         /\ [BenchmarkNext]_benchmarkVars
BY DEF Next, serviceVars

\* Every behaviour of the services is one of each service: they share no
\* variable, so what is proved of one alone holds beside the others.
THEOREM ServicesAreSeparate ==
  Spec => ProfileSpec /\ UserStoreSpec /\ LimiterSpec /\ BenchmarkSpec
<1>1. Init => ProfileInit /\ UserStoreInit /\ LimiterInit /\ BenchmarkInit
  BY DEF Init
<1>2. [Next]_serviceVars => /\ [ProfileNext]_profileVars /\ [UserStoreNext]_userVars
                            /\ [LimiterNext]_limiterVars /\ [BenchmarkNext]_benchmarkVars
  BY StepOfEach
<1> QED  BY <1>1, <1>2, PTL DEF Spec, ProfileSpec, UserStoreSpec, LimiterSpec, BenchmarkSpec

\* So each has its type invariant.
THEOREM ServicesTypeCorrect == Spec => []TypeOK
<1>1. /\ Spec => []ProfileTypeOK
      /\ Spec => []UserStoreTypeOK
      /\ Spec => []LimiterTypeOK
      /\ Spec => []BenchmarkTypeOK
  BY ServicesAreSeparate, ProfileTypeCorrect, UserStoreTypeCorrect, LimiterTypeCorrect,
     BenchmarkTypeCorrect, PTL
<1> QED  BY <1>1, PTL DEF TypeOK

\* And what makes each correct holds of the four together.
THEOREM ServicesCorrect ==
  Spec => [](/\ StreakPaced /\ BadgesEarned
             /\ LoneSavesAreWhole /\ OneInsertPerUser
             /\ MinuteBound /\ RefusalIsEarned /\ LeakOnlyByCut
             /\ SmallCohortsUndisclosed /\ TrendIsComplete)
BY ServicesAreSeparate, StreaksArePaced, BadgesAreEarned, LoneSavesWhole, InsertedOnce,
   MinutesAreBounded, RefusalsAreEarned, LeaksOnlyByCuts,
   SmallCohortsAreUndisclosed, TrendsAreComplete, PTL
=============================================================================
