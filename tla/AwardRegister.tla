---------------------------- MODULE AwardRegister ----------------------------
(***************************************************************************)
(* What granting achievements promises: for each badge and tenant there is  *)
(* one award, written once and never changed, and whoever is told of an     *)
(* award is told of that one.                                               *)
(***************************************************************************)
CONSTANTS Requests, Keys, Awards, NoAward, KeyOf(_)

VARIABLES register,  \* the award of each key
          asked,     \* the key each request asks for
          status,    \* "new", "open", or how the request was answered
          told       \* the award it was answered with

rvars == <<register, asked, status, told>>

RInit ==
  /\ register = [k \in Keys |-> NoAward]
  /\ asked \in [Requests -> {NoAward}]
  /\ status = [i \in Requests |-> "new"]
  /\ told = [i \in Requests |-> NoAward]

Ask(i, k) ==
  /\ status[i] = "new"
  /\ asked' = [asked EXCEPT ![i] = k]
  /\ status' = [status EXCEPT ![i] = "open"]
  /\ UNCHANGED <<register, told>>

TurnAway(i) ==
  /\ status[i] = "new"
  /\ status' = [status EXCEPT ![i] = "invalid"]
  /\ UNCHANGED <<register, asked, told>>

\* A request may be answered with an error and its award be recorded later.
Record(i) ==
  /\ status[i] \in {"open", "error"}
  /\ register[asked[i]] = NoAward
  /\ \E a \in Awards : /\ KeyOf(a) = asked[i]
                       /\ register' = [register EXCEPT ![asked[i]] = a]
  /\ UNCHANGED <<asked, status, told>>

Tell(i, answer) ==
  /\ status[i] = "open"
  /\ register[asked[i]] # NoAward
  /\ told' = [told EXCEPT ![i] = register[asked[i]]]
  /\ status' = [status EXCEPT ![i] = answer]
  /\ UNCHANGED <<register, asked>>

GiveUp(i) ==
  /\ status[i] = "open"
  /\ status' = [status EXCEPT ![i] = "error"]
  /\ UNCHANGED <<register, asked, told>>

RNext == \E i \in Requests :
           \/ \E k \in Keys : Ask(i, k)
           \/ TurnAway(i) \/ Record(i) \/ GiveUp(i)
           \/ Tell(i, "awarded") \/ Tell(i, "already_awarded")

RSpec == RInit /\ [][RNext]_rvars
=============================================================================
