---------------------------- MODULE MCImprovement ----------------------------
(***************************************************************************)
(* An instance of Improvement for TLC: a tenant that is ranked already, two *)
(* that are being stored, deltas that are negative, zero and positive, a    *)
(* segment that is refused after two boards have been written, and listings *)
(* of every kind.                                                           *)
(***************************************************************************)
EXTENDS Improvement

CONSTANTS finance, retail, apac, small

MCIndustries == {finance, retail}
MCRegions == {apac}
MCSizes == {small}

StoreOf(t, current, snapshot, x, y) ==
  [op |-> "store", tenant |-> t, current |-> current, snapshot |-> snapshot,
   industry |-> x, region |-> y, size |-> small]
ListOf(d, v, n) == [op |-> "list", dimension |-> d, value |-> v, limit |-> n, http |-> TRUE]
Call(d, v, n) == [ListOf(d, v, n) EXCEPT !.http = FALSE]

\* Tenant 3, of finance, is on its boards.
MCSeed == [b \in Boards |-> [t \in Members |-> IF t = 3 /\ b # retail THEN 1 ELSE Absent]]

MCTraffic ==
  {StoreOf(1, 2, 1, finance, apac), StoreOf(1, 1, 2, retail, apac),
   StoreOf(2, 1, 1, finance, Unknown),
   ListOf("global", None, 1), ListOf("industry", finance, 2), ListOf("region", None, 1),
   ListOf(Unknown, None, 1), ListOf("size", small, 0),
   ListOf("global", None, ListLimit + 1), Call("global", None, 0), Call("size", small, -1)}
=============================================================================
