------------------------ MODULE LeaderboardRefinement ------------------------
(***************************************************************************)
(* The leaderboard without faults implements the atomic board: a request is *)
(* open while it waits for a command, a listing has counted the players     *)
(* when it waits for the ranking, and answers appear with their outcomes.   *)
(***************************************************************************)
EXTENDS Leaderboard

Status == [i \in Requests |-> IF pc[i] = "ZREVRANGE" THEN "counted"
                              ELSE IF pc[i] \in Commands THEN "open" ELSE pc[i]]

Atomic == INSTANCE AtomicBoard WITH status <- Status, answer <- out

\* Every request looks like one step on the board, and a listing like two.  An
\* increment does as long as its player is on the board and stays there; all
\* other operations do whoever comes and goes.
ImplementsAtomicBoard == Atomic!ASpec
=============================================================================
