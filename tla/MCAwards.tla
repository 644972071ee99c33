------------------------------- MODULE MCAwards -------------------------------
(***************************************************************************)
(* Instances of Awards for TLC: more requests than keys, so that requests   *)
(* for one key race, and two keys, so that they do not always.              *)
(***************************************************************************)
EXTENDS Awards, TLC

RequestSymmetry == Permutations(Requests)
=============================================================================
