-------------------------- MODULE ImprovementProofs --------------------------
(***************************************************************************)
(* Proofs about Improvement, for any tenants, segments, traffic and number  *)
(* of requests and of repetitions.                                          *)
(***************************************************************************)
EXTENDS Improvement, ZSetLemmas

\* What is known of a request by the place it is at: only stores pass the first
\* board, and every key up to the place of a store has been accepted.
InPlace ==
  \A i \in Requests :
    /\ pc[i] = "new" => req[i] = Nothing /\ at[i] = 1
    /\ pc[i] # "new" => req[i] \in Traffic
    /\ pc[i] \in {"store", "stored"} \/ at[i] > 1 => IsStore(i)
    /\ pc[i] = "list" => req[i].op = "list" /\ ValidListing(req[i])
    /\ pc[i] = "stored" => at[i] = 4
    /\ IsStore(i) => \A k \in 1..at[i] : BoardAt(req[i], k) \in Boards

\* A copy is one of a store that has come at least as far.
CopiesOfStores == \A m \in limbo : IsStore(m.id) /\ m.at <= at[m.id]

\* The global board is first: who is past it is on it.
GlobalFirst == \A i \in Requests : at[i] > 1 => req[i].tenant \in Present(rank["global"])

\* Two stores share their tenant.
Together(i, j) == IsStore(i) /\ IsStore(j) /\ req[j].tenant = req[i].tenant

\* A store's rivals are stores of its tenant, all that can still write among them.
RivalsKnown ==
  /\ \A i \in Requests : \A j \in rivals[i] : Together(i, j)
  /\ \A i, j \in Requests : (i # j /\ Together(i, j) /\ MayWrite(j)) => j \in rivals[i]

\* What OnlyRivalsOverwrite says of place k of store i.
Shows(i, k) ==
  LET board == BoardAt(req[i], k)
  IN \E j \in {i} \cup rivals[i] :
       /\ \E n \in 1..at[j] : BoardAt(req[j], n) = board
       /\ rank[board][req[i].tenant] = calculate_delta(req[j])

IInv == /\ TypeOK
        /\ InPlace
        /\ CopiesOfStores
        /\ GlobalFirst
        /\ SegmentsWithinGlobal
        /\ RivalsKnown
        /\ OnlyRivalsOverwrite

-----------------------------------------------------------------------------
(* Lemmas about requests and boards.                                        *)

LEMMA StoreRequest ==
  ASSUME NEW r \in Traffic, r.op = "store"
  PROVE  r.tenant \in Members /\ calculate_delta(r) \in Int
  BY ImprovementAssumption DEF IsRequest, calculate_delta

LEMMA BoardOne ==
  ASSUME NEW r
  PROVE  BoardAt(r, 1) = "global" /\ BoardAt(r, 1) \in Boards
  BY DEF BoardAt, Boards

\* Past the first, the boards of a store are boards of segments.
LEMMA BoardLater ==
  ASSUME NEW r \in Traffic, r.op = "store", NEW k \in 2..4, BoardAt(r, k) \in Boards
  PROVE  BoardAt(r, k) \in Segments
  BY ImprovementAssumption DEF IsRequest, BoardAt, Boards, Segments

\* What a ZADD changes: one cell, which holds the delta.
LEMMA ZAddChanges ==
  ASSUME TypeOK, NEW r \in Traffic, r.op = "store", NEW k \in Places,
         BoardAt(r, k) \in Boards, ZAddAt(r, k)
  PROVE  /\ rank' \in [Boards -> [Members -> Int \cup {Absent}]]
         /\ rank'[BoardAt(r, k)][r.tenant] = calculate_delta(r)
         /\ \A b \in Boards : \A t \in Members :
              (b # BoardAt(r, k) \/ t # r.tenant) => rank'[b][t] = rank[b][t]
         /\ \A b \in Boards : Present(rank'[b]) \subseteq Present(rank[b]) \cup {r.tenant}
         /\ \A b \in Boards : b # BoardAt(r, k) => Present(rank'[b]) = Present(rank[b])
         /\ \A b \in Boards : Present(rank[b]) \subseteq Present(rank'[b])
         /\ r.tenant \in Present(rank'[BoardAt(r, k)])
<1> DEFINE b0 == BoardAt(r, k)
           new == [t \in {r.tenant} |-> calculate_delta(r)]
<1>1. r.tenant \in Members /\ calculate_delta(r) \in Int /\ Absent \notin Int
  BY StoreRequest, ZSetAssumption
<1>2. rank' = [rank EXCEPT ![b0] = ZAdd(rank[b0], new)]
  BY DEF ZAddAt
<1>3. ZAdd(rank[b0], new) = [t \in Members |-> IF t = r.tenant THEN calculate_delta(r) ELSE rank[b0][t]]
  BY DEF ZAdd
<1> HIDE DEF b0, new
<1>4. rank \in [Boards -> [Members -> Int \cup {Absent}]] /\ b0 \in Boards
  BY DEF TypeOK, b0
<1>5. /\ rank' \in [Boards -> [Members -> Int \cup {Absent}]]
      /\ rank'[b0][r.tenant] = calculate_delta(r)
      /\ \A b \in Boards : \A t \in Members :
           (b # b0 \/ t # r.tenant) => rank'[b][t] = rank[b][t]
      /\ \A b \in Boards : b # b0 => rank'[b] = rank[b]
  BY <1>1, <1>2, <1>3, <1>4
<1>6. /\ \A b \in Boards : Present(rank'[b]) \subseteq Present(rank[b]) \cup {r.tenant}
      /\ \A b \in Boards : b # b0 => Present(rank'[b]) = Present(rank[b])
      /\ \A b \in Boards : Present(rank[b]) \subseteq Present(rank'[b])
      /\ r.tenant \in Present(rank'[b0])
  BY <1>1, <1>4, <1>5 DEF Present
<1> QED  BY <1>5, <1>6 DEF b0

\* The entries of a listing are places of members.
LEMMA ListingType ==
  ASSUME NEW z \in [Members -> Int \cup {Absent}], NEW limit \in Nat
  PROVE  ZRevRange(z, limit) \subseteq [rank : Nat \ {0}, user : Members, score : Int]
<1> SUFFICES ASSUME NEW m \in Present(z)
             PROVE  [rank |-> ZRevRank(z, m) + 1, user |-> m, score |-> z[m]]
                      \in [rank : Nat \ {0}, user : Members, score : Int]
  BY DEF ZRevRange
<1>1. {n \in Present(z) : Before(z, n, m)} \subseteq Members
  BY DEF Present
<1>2. ZRevRank(z, m) \in Nat
  BY <1>1, ZSetAssumption, FS_Subset, FS_CardinalityType DEF ZRevRank
<1> QED  BY <1>2 DEF Present

\* A ZADD of store i at place n leaves what the stores have written, or overwrites
\* it for those whose rival i is.
LEMMA ZAddShows ==
  ASSUME IInv, NEW i \in Requests, IsStore(i), MayWrite(i),
         NEW n \in Places, n <= at[i], ZAddAt(req[i], n),
         UNCHANGED <<req, rivals>>,
         \A j \in Requests : at'[j] \in Places /\ at'[j] >= at[j],
         NEW j \in Requests, IsStore(j), NEW k \in 1..at[j],
         k \in WrittenPlaces(j) \/ (j = i /\ k = n)
  PROVE  Shows(j, k)'
<1> DEFINE b == BoardAt(req[i], n)
           t == req[i].tenant
           board == BoardAt(req[j], k)
<1> USE DEF IInv
<1>1. /\ req[i] \in Traffic /\ req[i].op = "store" /\ req[j] \in Traffic /\ req[j].op = "store"
      /\ t \in Members /\ req[j].tenant \in Members
  BY StoreRequest DEF InPlace, IsStore
<1>2. b \in Boards /\ board \in Boards
  <2>1. n \in 1..at[i]
    BY DEF TypeOK, Places
  <2> QED  BY <2>1 DEF InPlace
<1>3. /\ rank'[b][t] = calculate_delta(req[i])
      /\ \A c \in Boards : \A u \in Members : (c # b \/ u # t) => rank'[c][u] = rank[c][u]
  BY <1>1, <1>2, ZAddChanges
<1>4. CASE board = b /\ req[j].tenant = t
  <2>1. i \in {j} \cup rivals[j]
    BY <1>4 DEF RivalsKnown, Together
  <2>2. n \in 1..at'[i]
    BY DEF TypeOK, Places
  <2> QED  BY <1>3, <1>4, <2>1, <2>2 DEF Shows
<1>5. CASE ~(board = b /\ req[j].tenant = t)
  <2>1. k \in WrittenPlaces(j)
    BY <1>5
  <2>2. PICK l \in {j} \cup rivals[j] :
          /\ \E m \in 1..at[l] : BoardAt(req[l], m) = board
          /\ rank[board][req[j].tenant] = calculate_delta(req[l])
    BY <2>1 DEF OnlyRivalsOverwrite
  <2>3. l \in Requests
    BY DEF TypeOK
  <2>4. 1..at[l] \subseteq 1..at'[l]
    BY <2>3 DEF TypeOK, Places
  <2>5. rank'[board][req[j].tenant] = rank[board][req[j].tenant]
    BY <1>1, <1>2, <1>3, <1>5
  <2> QED  BY <2>2, <2>4, <2>5 DEF Shows
<1> QED  BY <1>4, <1>5

LEMMA InitIInv == Init => IInv
<1> SUFFICES ASSUME Init PROVE IInv
  OBVIOUS
<1> USE ImprovementAssumption DEF Init
<1>1. TypeOK
  BY DEF TypeOK, Places
<1>2. InPlace /\ CopiesOfStores /\ GlobalFirst
  BY DEF InPlace, CopiesOfStores, GlobalFirst, IsStore
<1>3. SegmentsWithinGlobal /\ RivalsKnown /\ OnlyRivalsOverwrite
  BY DEF SegmentsWithinGlobal, RivalsKnown, Together, OnlyRivalsOverwrite, IsStore
<1> QED  BY <1>1, <1>2, <1>3 DEF IInv

-----------------------------------------------------------------------------
(* One lemma for each action.                                               *)

LEMMA BeginStoreKeepsIInv ==
  ASSUME IInv, NEW i \in Requests, NEW r \in Traffic, BeginStore(i, r)
  PROVE  IInv'
<1> USE DEF IInv
<1>1. /\ pc[i] = "new" /\ r.op = "store" /\ at[i] = 1
      /\ req' = [req EXCEPT ![i] = r] /\ pc' = [pc EXCEPT ![i] = "store"]
      /\ UNCHANGED <<rank, at, tries, out, limbo>>
  BY DEF BeginStore, InPlace
<1>2. /\ req'[i] = r /\ pc'[i] = "store"
      /\ \A j \in Requests : j # i => req'[j] = req[j] /\ pc'[j] = pc[j]
  BY <1>1 DEF TypeOK
<1>3. /\ rivals' \in [Requests -> SUBSET Requests]
      /\ rivals'[i] = {j \in Stores(r.tenant) : MayWrite(j)}
      /\ \A j \in Requests : j # i =>
           rivals'[j] = IF j \in Stores(r.tenant) THEN rivals[j] \cup {i} ELSE rivals[j]
  <2>1. Stores(r.tenant) \subseteq Requests /\ rivals \in [Requests -> SUBSET Requests]
    BY DEF Stores, TypeOK
  <2>2. rivals' = [j \in Requests |->
                     IF j = i THEN {s \in Stores(r.tenant) : MayWrite(s)}
                     ELSE IF j \in Stores(r.tenant) THEN rivals[j] \cup {i} ELSE rivals[j]]
    BY DEF BeginStore
  <2> QED  BY <2>1, <2>2
<1>4. TypeOK'
  BY <1>1, <1>3 DEF TypeOK
<1>5. /\ IsStore(i)' /\ \A j \in Requests : j # i => IsStore(j)' = IsStore(j)
      /\ ~IsStore(i)
  BY <1>1, <1>2 DEF IsStore
<1>6. InPlace'
  <2>1. \A k \in 1..at'[i] : BoardAt(r, k) \in Boards
    BY <1>1, BoardOne
  <2> QED  BY <1>1, <1>2, <1>3, <1>5, <2>1 DEF InPlace
<1>7. CopiesOfStores'
  BY <1>1, <1>5 DEF CopiesOfStores, TypeOK, Copies
<1>8. GlobalFirst' /\ SegmentsWithinGlobal'
  BY <1>1, <1>2 DEF GlobalFirst, SegmentsWithinGlobal
<1>9. \A j, l \in Requests : j # i /\ l # i => (Together(j, l)' <=> Together(j, l))
  BY <1>2, <1>5 DEF Together
<1>10. \A j \in Requests : j # i => /\ MayWrite(j)' <=> MayWrite(j)
                                    /\ j \in Stores(r.tenant) <=> Together(i, j)'
                                    /\ j \in Stores(r.tenant) <=> Together(j, i)'
  BY <1>1, <1>2, <1>5 DEF MayWrite, Stores, Together
<1>11. i \notin Stores(r.tenant) /\ \A j \in Requests : i \notin rivals[j]
  BY <1>5 DEF Stores, RivalsKnown, Together
<1>12. RivalsKnown'
  <2>1. ASSUME NEW j \in Requests, NEW l \in rivals'[j] PROVE Together(j, l)'
    <3>1. l \in Requests
      BY <1>3
    <3>2. CASE j = i
      BY <1>3, <1>10, <1>11, <2>1, <3>1, <3>2
    <3>3. CASE j # i /\ l = i
      <4>1. j \in Stores(r.tenant)
        BY <1>3, <1>11, <2>1, <3>3
      <4> QED  BY <1>10, <3>3, <4>1
    <3>4. CASE j # i /\ l # i
      <4>1. l \in rivals[j]
        BY <1>3, <2>1, <3>4
      <4> QED  BY <1>9, <3>1, <3>4, <4>1 DEF RivalsKnown
    <3> QED  BY <3>2, <3>3, <3>4
  <2>2. ASSUME NEW j \in Requests, NEW l \in Requests, j # l, Together(j, l)', MayWrite(l)'
        PROVE  l \in rivals'[j]
    <3>1. CASE j = i
      BY <1>3, <1>10, <2>2, <3>1
    <3>2. CASE l = i
      BY <1>3, <1>10, <2>2, <3>2
    <3>3. CASE j # i /\ l # i
      <4>1. l \in rivals[j]
        BY <1>9, <1>10, <2>2, <3>3 DEF RivalsKnown
      <4> QED  BY <1>3, <3>3, <4>1
    <3> QED  BY <3>1, <3>2, <3>3
  <2> QED  BY <2>1, <2>2 DEF RivalsKnown
<1>13. OnlyRivalsOverwrite'
  <2> SUFFICES ASSUME NEW j \in Requests, IsStore(j)', NEW k \in WrittenPlaces(j)'
               PROVE  Shows(j, k)'
    BY DEF OnlyRivalsOverwrite, Shows
  <2>1. j # i
    BY <1>1, <1>2 DEF WrittenPlaces
  <2>2. IsStore(j) /\ k \in WrittenPlaces(j) /\ req'[j] = req[j] /\ rivals[j] \subseteq rivals'[j]
    BY <1>1, <1>2, <1>3, <1>5, <2>1 DEF WrittenPlaces
  <2>3. PICK l \in {j} \cup rivals[j] :
          /\ \E n \in 1..at[l] : BoardAt(req[l], n) = BoardAt(req[j], k)
          /\ rank[BoardAt(req[j], k)][req[j].tenant] = calculate_delta(req[l])
    BY <2>2 DEF OnlyRivalsOverwrite
  <2>4. l \in Requests /\ l # i
    BY <1>11, <2>1, <2>3 DEF TypeOK
  <2>5. req'[l] = req[l] /\ UNCHANGED <<at, rank>>
    BY <1>1, <1>2, <2>4
  <2> QED  BY <2>2, <2>3, <2>5 DEF Shows
<1> QED  BY <1>4, <1>6, <1>7, <1>8, <1>12, <1>13

\* A request that is not a store goes on or ends.
LEMMA ListingKeepsIInv ==
  ASSUME IInv, NEW i \in Requests,
         (\E r \in Traffic : BeginList(i, r)) \/ ListBoard(i)
  PROVE  IInv'
<1> USE DEF IInv
<1>1. /\ UNCHANGED <<rank, at, tries, limbo, rivals>>
      /\ ~IsStore(i) /\ pc[i] \in {"new", "list"}
      /\ pc'[i] \in {"list", "invalid", "listed"}
      /\ req'[i] \in Traffic /\ req'[i].op = "list"
      /\ pc'[i] = "list" => ValidListing(req'[i])
      /\ \A j \in Requests : j # i => req'[j] = req[j] /\ pc'[j] = pc[j]
      /\ req' \in [Requests -> Traffic \cup {Nothing}]
      /\ pc' \in [Requests -> {"new", "store", "list"} \cup Outcomes]
  BY DEF BeginList, ListBoard, InPlace, IsStore, TypeOK, Outcomes
<1>2. out' \in [Requests -> SUBSET [rank : Nat \ {0}, user : Members, score : Int]]
  <2>1. CASE \E r \in Traffic : BeginList(i, r)
    BY <2>1 DEF BeginList, TypeOK
  <2>2. CASE ListBoard(i)
    <3> DEFINE r == req[i]
               board == IF r.dimension = "global" THEN "global" ELSE r.value
    <3>1. r \in Traffic /\ r.op = "list" /\ ValidListing(r)
      BY <2>2 DEF ListBoard, InPlace
    <3>2. board \in Boards /\ Length(r.limit) \in Nat
      BY <3>1, ImprovementAssumption
      DEF IsRequest, ValidListing, SegmentsOf, Boards, Segments, Length
    <3>3. rank[board] \in [Members -> Int \cup {Absent}]
      BY <3>2 DEF TypeOK
    <3>4. ZRevRange(rank[board], Length(r.limit)) \subseteq [rank : Nat \ {0}, user : Members, score : Int]
      BY <3>2, <3>3, ListingType
    <3>5. out' = [out EXCEPT ![i] = ZRevRange(rank[board], Length(r.limit))]
      BY <2>2 DEF ListBoard
    <3> QED  BY <3>4, <3>5 DEF TypeOK
  <2> QED  BY <2>1, <2>2
<1>3. TypeOK'
  BY <1>1, <1>2 DEF TypeOK
<1>4. ~IsStore(i)' /\ \A j \in Requests : j # i => IsStore(j)' = IsStore(j)
  BY <1>1 DEF IsStore
<1>5. InPlace'
  BY <1>1, <1>4 DEF InPlace
<1>6. CopiesOfStores'
  BY <1>1, <1>4 DEF CopiesOfStores, TypeOK, Copies
<1>7. GlobalFirst' /\ SegmentsWithinGlobal'
  BY <1>1 DEF GlobalFirst, SegmentsWithinGlobal, InPlace
<1>8. /\ \A j, l \in Requests : Together(j, l)' <=> Together(j, l)
      /\ \A j \in Requests : j # i => (MayWrite(j)' <=> MayWrite(j))
      /\ rivals' = rivals
  BY <1>1, <1>4 DEF Together, MayWrite
<1>9. RivalsKnown'
  <2>1. \A j \in Requests : ~Together(j, i)
    BY <1>1 DEF Together
  <2>2. \A j \in Requests : rivals[j] \subseteq Requests
    BY DEF TypeOK
  <2> QED  BY <1>8, <2>1, <2>2 DEF RivalsKnown
<1>10. OnlyRivalsOverwrite'
  <2> SUFFICES ASSUME NEW j \in Requests, IsStore(j)', NEW k \in WrittenPlaces(j)'
               PROVE  Shows(j, k)'
    BY DEF OnlyRivalsOverwrite, Shows
  <2>1. j # i /\ IsStore(j) /\ req'[j] = req[j] /\ k \in WrittenPlaces(j)
    BY <1>1, <1>4 DEF WrittenPlaces
  <2>2. PICK l \in {j} \cup rivals[j] :
          /\ \E n \in 1..at[l] : BoardAt(req[l], n) = BoardAt(req[j], k)
          /\ rank[BoardAt(req[j], k)][req[j].tenant] = calculate_delta(req[l])
    BY <2>1 DEF OnlyRivalsOverwrite
  <2>3. l \in Requests /\ req'[l] = req[l] /\ UNCHANGED <<at, rank, rivals>>
    <3>1. IsStore(l) /\ l \in Requests
      BY <2>1 DEF RivalsKnown, Together, TypeOK
    <3> QED  BY <1>1, <3>1
  <2> QED  BY <2>1, <2>2, <2>3 DEF Shows
<1> QED  BY <1>3, <1>5, <1>6, <1>7, <1>9, <1>10

LEMMA AbandonedKeepsIInv ==
  ASSUME IInv, NEW i \in Requests, Resend(i) \/ Fail(i)
  PROVE  IInv'
<1> USE DEF IInv
<1>1. /\ pc[i] \in {"store", "list"}
      /\ UNCHANGED <<rank, req, out, rivals, at>>
      /\ limbo' = IF pc[i] = "store" THEN limbo \cup {[id |-> i, at |-> at[i], try |-> tries[i]]}
                  ELSE limbo
      /\ pc' = pc \/ pc' = [pc EXCEPT ![i] = "failed"]
      /\ pc'[i] # "new" /\ \A j \in Requests : pc'[j] = pc[j] \/ (j = i /\ pc'[j] = "failed")
  BY DEF Resend, Fail, Abandoned, TypeOK
<1>2. limbo' \subseteq Copies
  BY <1>1 DEF TypeOK, Copies
<1>3. tries' \in [Requests -> 0..Retries]
  BY ImprovementAssumption DEF Resend, Fail, TypeOK
<1>4. TypeOK'
  BY <1>1, <1>2, <1>3 DEF TypeOK, Outcomes
<1>5. \A j \in Requests : IsStore(j)' = IsStore(j)
  BY <1>1 DEF IsStore
<1>6. InPlace'
  BY <1>1, <1>5 DEF InPlace
<1>7. CopiesOfStores'
  <2> SUFFICES ASSUME NEW m \in limbo' PROVE IsStore(m.id)' /\ m.at <= at'[m.id]
    BY DEF CopiesOfStores
  <2>1. CASE m \in limbo
    BY <1>1, <1>5, <2>1 DEF CopiesOfStores, TypeOK, Copies
  <2>2. CASE m \notin limbo
    <3>1. pc[i] = "store" /\ m.id = i /\ m.at = at[i]
      BY <1>1, <2>2
    <3>2. IsStore(i) /\ at[i] \in Nat
      BY <3>1 DEF InPlace, TypeOK, Places
    <3> QED  BY <1>1, <1>5, <3>1, <3>2
  <2> QED  BY <2>1, <2>2
<1>8. GlobalFirst' /\ SegmentsWithinGlobal'
  BY <1>1 DEF GlobalFirst, SegmentsWithinGlobal
<1>9. RivalsKnown'
  <2>1. \A j \in Requests : IsStore(j) /\ MayWrite(j)' => MayWrite(j)
    BY <1>1 DEF MayWrite, InPlace
  <2>2. \A j, l \in Requests : Together(j, l)' <=> Together(j, l)
    BY <1>1, <1>5 DEF Together
  <2>3. rivals' = rivals /\ \A j \in Requests : rivals[j] \subseteq Requests
    BY <1>1 DEF TypeOK
  <2>4. \A j \in Requests : \A l \in rivals'[j] : Together(j, l)'
    BY <2>2, <2>3 DEF RivalsKnown
  <2>5. \A j, l \in Requests : (j # l /\ Together(j, l)' /\ MayWrite(l)') => l \in rivals'[j]
    BY <2>1, <2>2, <2>3 DEF RivalsKnown, Together
  <2> QED  BY <2>4, <2>5 DEF RivalsKnown
<1>10. OnlyRivalsOverwrite'
  <2>1. \A j \in Requests : WrittenPlaces(j)' \subseteq WrittenPlaces(j)
    BY <1>1 DEF WrittenPlaces
  <2> QED  BY <1>1, <1>5, <2>1 DEF OnlyRivalsOverwrite
<1> QED  BY <1>4, <1>6, <1>7, <1>8, <1>9, <1>10

LEMMA StoreOnBoardKeepsIInv ==
  ASSUME IInv, NEW i \in Requests, StoreOnBoard(i)
  PROVE  IInv'
<1> USE DEF IInv
<1> DEFINE r == req[i]
           t == r.tenant
           b == BoardAt(r, at[i])
<1>1. /\ pc[i] = "store" /\ IsStore(i) /\ r \in Traffic /\ r.op = "store" /\ at[i] \in Places
      /\ ZAddAt(r, at[i]) /\ b \in Boards
      /\ UNCHANGED <<req, out, limbo, rivals>>
      /\ \A k \in 1..at[i] : BoardAt(r, k) \in Boards
  BY DEF StoreOnBoard, InPlace, IsStore, TypeOK, Places
<1>2. /\ rank' \in [Boards -> [Members -> Int \cup {Absent}]]
      /\ rank'[b][t] = calculate_delta(r)
      /\ \A c \in Boards : \A u \in Members : (c # b \/ u # t) => rank'[c][u] = rank[c][u]
      /\ \A c \in Boards : c # b => Present(rank'[c]) = Present(rank[c])
      /\ \A c \in Boards : Present(rank'[c]) \subseteq Present(rank[c]) \cup {t}
      /\ \A c \in Boards : Present(rank[c]) \subseteq Present(rank'[c])
      /\ t \in Present(rank'[b])
  BY <1>1, ZAddChanges
<1>3. t \in Members /\ calculate_delta(r) \in Int
  BY <1>1, StoreRequest
<1>4. \/ at[i] = 4 /\ pc'[i] = "stored" /\ at' = at
      \/ at[i] < 4 /\ pc'[i] = "store" /\ at'[i] = at[i] + 1 /\ BoardAt(r, at[i] + 1) \in Segments
      \/ at[i] < 4 /\ pc'[i] = "invalid" /\ at' = at
  BY <1>1 DEF StoreOnBoard, TypeOK
<1>5. /\ pc' \in [Requests -> {"new", "store", "list"} \cup Outcomes]
      /\ at' \in [Requests -> Places] /\ tries' \in [Requests -> 0..Retries]
      /\ \A j \in Requests : j # i => pc'[j] = pc[j] /\ at'[j] = at[j]
  <2>1. at[i] < 4 => at[i] + 1 \in Places
    BY <1>1 DEF Places
  <2>2. 0 \in 0..Retries
    BY ImprovementAssumption
  <2>3. CASE at[i] = 4 /\ pc' = [pc EXCEPT ![i] = "stored"] /\ UNCHANGED <<at, tries>>
    BY <2>3 DEF TypeOK, Outcomes
  <2>4. CASE at[i] < 4 /\ at' = [at EXCEPT ![i] = at[i] + 1]
             /\ tries' = [tries EXCEPT ![i] = 0] /\ UNCHANGED pc
    BY <2>1, <2>2, <2>4 DEF TypeOK
  <2>5. CASE at[i] < 4 /\ pc' = [pc EXCEPT ![i] = "invalid"] /\ UNCHANGED <<at, tries>>
    BY <2>5 DEF TypeOK, Outcomes
  <2> QED  BY <2>3, <2>4, <2>5 DEF StoreOnBoard
<1>6. TypeOK'
  BY <1>1, <1>2, <1>5 DEF TypeOK
<1>7. IsStore(i)' /\ \A j \in Requests : IsStore(j)' = IsStore(j)
  BY <1>1, <1>4, <1>5 DEF IsStore
<1>8. InPlace'
  <2>1. \A k \in 1..at'[i] : BoardAt(r, k) \in Boards
    BY <1>1, <1>4 DEF Boards, Places
  <2> QED  BY <1>1, <1>4, <1>5, <1>7, <2>1 DEF InPlace
<1>9. at[i] \in Nat /\ at'[i] >= at[i]
  BY <1>1, <1>4 DEF Places
<1>10. CopiesOfStores'
  <2> SUFFICES ASSUME NEW m \in limbo PROVE IsStore(m.id)' /\ m.at <= at'[m.id]
    BY <1>1 DEF CopiesOfStores
  <2>1. /\ m.id \in Requests /\ IsStore(m.id)
        /\ m.at \in Nat /\ at[m.id] \in Nat /\ m.at <= at[m.id]
    BY DEF CopiesOfStores, TypeOK, Copies, Places
  <2>2. at'[m.id] \in Nat /\ at'[m.id] >= at[m.id]
    BY <1>4, <1>5, <1>9, <2>1
  <2> QED  BY <1>7, <2>1, <2>2
<1>11. "global" \in Boards /\ \A s \in Segments : s \in Boards /\ s # "global"
  BY ImprovementAssumption DEF Boards
<1>12. t \in Present(rank'["global"])
  <2>1. CASE at[i] = 1
    BY <1>2, <2>1, BoardOne
  <2>2. CASE at[i] # 1
    <3>1. at[i] > 1
      BY <1>1, <2>2 DEF Places
    <3> QED  BY <1>2, <1>11, <3>1 DEF GlobalFirst
  <2> QED  BY <2>1, <2>2
<1>13. GlobalFirst'
  BY <1>1, <1>2, <1>5, <1>11, <1>12 DEF GlobalFirst
<1>14. SegmentsWithinGlobal'
  BY <1>2, <1>11, <1>12 DEF SegmentsWithinGlobal
<1>15. RivalsKnown'
  <2>1. \A j \in Requests : MayWrite(j)' => MayWrite(j)
    BY <1>1, <1>5 DEF MayWrite
  <2>2. \A j, l \in Requests : Together(j, l)' <=> Together(j, l)
    BY <1>1, <1>7 DEF Together
  <2>3. rivals' = rivals /\ \A j \in Requests : rivals[j] \subseteq Requests
    BY <1>1 DEF TypeOK
  <2>4. \A j \in Requests : \A l \in rivals'[j] : Together(j, l)'
    BY <2>2, <2>3 DEF RivalsKnown
  <2>5. \A j, l \in Requests : (j # l /\ Together(j, l)' /\ MayWrite(l)') => l \in rivals'[j]
    BY <2>1, <2>2, <2>3 DEF RivalsKnown, Together
  <2> QED  BY <2>4, <2>5 DEF RivalsKnown
<1>16. OnlyRivalsOverwrite'
  <2> SUFFICES ASSUME NEW j \in Requests, IsStore(j), NEW k \in WrittenPlaces(j)'
               PROVE  Shows(j, k)'
    BY <1>7 DEF OnlyRivalsOverwrite, Shows
  <2>1. \A l \in Requests : at'[l] \in Places /\ at'[l] >= at[l]
    BY <1>4, <1>5, <1>6 DEF TypeOK, Places
  <2>2. k \in 1..at[j] /\ (k \in WrittenPlaces(j) \/ (j = i /\ k = at[i]))
    <3>1. CASE j = i
      BY <1>1, <1>4, <3>1 DEF WrittenPlaces, Places
    <3>2. CASE j # i
      BY <1>5, <3>2 DEF WrittenPlaces, TypeOK, Places
    <3> QED  BY <3>1, <3>2
  <2>3. MayWrite(i) /\ at[i] <= at[i]
    BY <1>1 DEF MayWrite, Places
  <2> QED  BY <1>1, <2>1, <2>2, <2>3, ZAddShows
<1> QED  BY <1>6, <1>8, <1>10, <1>13, <1>14, <1>15, <1>16

LEMMA ExecuteLateKeepsIInv ==
  ASSUME IInv, NEW m \in limbo, ExecuteLate(m)
  PROVE  IInv'
<1> USE DEF IInv
<1> DEFINE i == m.id
           r == req[i]
           t == r.tenant
           b == BoardAt(r, m.at)
<1>1. /\ i \in Requests /\ m.at \in Places /\ IsStore(i) /\ m.at <= at[i] /\ at[i] \in Places
      /\ r \in Traffic /\ r.op = "store" /\ ZAddAt(r, m.at)
      /\ limbo' \subseteq limbo
      /\ UNCHANGED <<locals, rivals>>
  BY DEF ExecuteLate, InPlace, IsStore, TypeOK, Copies, CopiesOfStores
<1>2. \A k \in 1..at[i] : BoardAt(r, k) \in Boards
  BY <1>1 DEF InPlace
<1>3. b \in Boards
  BY <1>1, <1>2 DEF Places
<1>4. /\ rank' \in [Boards -> [Members -> Int \cup {Absent}]]
      /\ rank'[b][t] = calculate_delta(r)
      /\ \A c \in Boards : \A u \in Members : (c # b \/ u # t) => rank'[c][u] = rank[c][u]
      /\ \A c \in Boards : c # b => Present(rank'[c]) = Present(rank[c])
      /\ \A c \in Boards : Present(rank'[c]) \subseteq Present(rank[c]) \cup {t}
      /\ \A c \in Boards : Present(rank[c]) \subseteq Present(rank'[c])
      /\ t \in Present(rank'[b])
  BY <1>1, <1>3, ZAddChanges
<1>5. t \in Members /\ calculate_delta(r) \in Int
  BY <1>1, StoreRequest
<1>6. TypeOK'
  BY <1>1, <1>4 DEF TypeOK, locals
<1>7. \A j \in Requests : IsStore(j)' = IsStore(j)
  BY <1>1 DEF IsStore, locals
<1>8. InPlace'
  BY <1>1, <1>7 DEF InPlace, locals
<1>9. CopiesOfStores'
  BY <1>1, <1>7 DEF CopiesOfStores, locals, TypeOK, Copies
<1>10. "global" \in Boards /\ \A s \in Segments : s \in Boards /\ s # "global"
  BY ImprovementAssumption DEF Boards
<1>11. t \in Present(rank'["global"])
  <2>1. CASE m.at = 1
    BY <1>4, <2>1, BoardOne
  <2>2. CASE m.at # 1
    <3>1. at[i] > 1
      BY <1>1, <2>2 DEF Places
    <3> QED  BY <1>1, <1>4, <1>10, <3>1 DEF GlobalFirst
  <2> QED  BY <2>1, <2>2
<1>12. GlobalFirst' /\ SegmentsWithinGlobal'
  BY <1>1, <1>4, <1>10, <1>11 DEF GlobalFirst, SegmentsWithinGlobal, locals
<1>13. RivalsKnown'
  <2>1. \A j \in Requests : MayWrite(j)' => MayWrite(j)
    BY <1>1 DEF MayWrite, locals
  <2>2. \A j, l \in Requests : Together(j, l)' <=> Together(j, l)
    BY <1>1, <1>7 DEF Together, locals
  <2>3. rivals' = rivals /\ \A j \in Requests : rivals[j] \subseteq Requests
    BY <1>1 DEF TypeOK, locals
  <2>4. \A j \in Requests : \A l \in rivals'[j] : Together(j, l)'
    BY <2>2, <2>3 DEF RivalsKnown
  <2>5. \A j, l \in Requests : (j # l /\ Together(j, l)' /\ MayWrite(l)') => l \in rivals'[j]
    BY <2>1, <2>2, <2>3 DEF RivalsKnown, Together
  <2> QED  BY <2>4, <2>5 DEF RivalsKnown
<1>14. OnlyRivalsOverwrite'
  <2> SUFFICES ASSUME NEW j \in Requests, IsStore(j), NEW k \in WrittenPlaces(j)
               PROVE  Shows(j, k)'
    BY <1>1, <1>7 DEF OnlyRivalsOverwrite, Shows, WrittenPlaces, locals
  <2>1. \A l \in Requests : at'[l] \in Places /\ at'[l] >= at[l]
    BY <1>1 DEF TypeOK, Places, locals
  <2>2. k \in 1..at[j]
    BY DEF WrittenPlaces, TypeOK, Places
  <2>3. MayWrite(i) /\ UNCHANGED <<req, rivals>>
    BY <1>1 DEF MayWrite, locals
  <2> QED  BY <1>1, <2>1, <2>2, <2>3, ZAddShows
<1> QED  BY <1>6, <1>8, <1>9, <1>12, <1>13, <1>14

LEMMA StutterKeepsIInv ==
  ASSUME IInv, UNCHANGED vars
  PROVE  IInv'
BY DEF IInv, vars, locals, TypeOK, InPlace, CopiesOfStores, GlobalFirst, SegmentsWithinGlobal,
       RivalsKnown, Together, OnlyRivalsOverwrite, WrittenPlaces, IsStore, MayWrite

-----------------------------------------------------------------------------
LEMMA NextKeepsIInv ==
  ASSUME IInv, [Next]_vars
  PROVE  IInv'
<1>1. ASSUME NEW i \in Requests, NEW r \in Traffic, BeginStore(i, r)
      PROVE  IInv'
  BY <1>1, BeginStoreKeepsIInv
<1>2. ASSUME NEW i \in Requests, NEW r \in Traffic, BeginList(i, r)
      PROVE  IInv'
  BY <1>2, ListingKeepsIInv
<1>3. ASSUME NEW i \in Requests, Respond(i)
      PROVE  IInv'
  BY <1>3, StoreOnBoardKeepsIInv, ListingKeepsIInv DEF Respond
<1>4. ASSUME NEW i \in Requests, Resend(i) \/ Fail(i)
      PROVE  IInv'
  BY <1>4, AbandonedKeepsIInv
<1> QED
  BY <1>1, <1>2, <1>3, <1>4, ExecuteLateKeepsIInv, StutterKeepsIInv DEF Next

-----------------------------------------------------------------------------
\* What has been listed stays, and a new listing is ranked.
LEMMA NextKeepsRanked ==
  ASSUME IInv, ListingIsRanked, [Next]_vars
  PROVE  ListingIsRanked'
<1> DEFINE Kept == \A j \in Requests :
                     pc'[j] = "listed" => pc[j] = "listed" /\ out'[j] = out[j] /\ req'[j] = req[j]
<1>1. ASSUME NEW i \in Requests, ListBoard(i)
      PROVE  ListingIsRanked'
  <2> DEFINE r == req[i]
             board == IF r.dimension = "global" THEN "global" ELSE r.value
  <2>1. r \in Traffic /\ r.op = "list" /\ ValidListing(r)
    BY <1>1 DEF ListBoard, IInv, InPlace
  <2>2. /\ board \in Boards /\ r.limit \in Int /\ Length(r.limit) \in Nat
        /\ r.http \in BOOLEAN /\ (r.http => r.limit >= 1)
    BY <2>1, ImprovementAssumption
    DEF IsRequest, ValidListing, SegmentsOf, Boards, Segments, Length
  <2>3. rank[board] \in [Members -> Int \cup {Absent}]
    BY <2>2 DEF IInv, TypeOK
  <2>4. /\ out' = [out EXCEPT ![i] = ZRevRange(rank[board], Length(r.limit))]
        /\ pc' = [pc EXCEPT ![i] = "listed"] /\ req' = req
    BY <1>1 DEF ListBoard
  <2>5. out'[i] = ZRevRange(rank[board], Length(r.limit))
    BY <2>4 DEF IInv, TypeOK
  <2>6. \A j \in Requests : j # i => out'[j] = out[j] /\ pc'[j] = pc[j]
    BY <2>4 DEF IInv, TypeOK
  <2>7. /\ {e.rank : e \in out'[i]} = 1..Cardinality(out'[i])
        /\ \/ Cardinality(out'[i]) <= r.limit
           \/ ~r.http /\ Cardinality(out'[i]) <= 1
        /\ \A e, f \in out'[i] : e.rank < f.rank => e.score >= f.score
    <3>1. /\ {e.rank : e \in out'[i]} = 1..Cardinality(out'[i])
          /\ Cardinality(out'[i]) <= Length(r.limit)
          /\ \A e, f \in out'[i] : e.rank < f.rank => e.score >= f.score
      BY <2>2, <2>3, <2>5, ListingRanked
    <3> QED  BY <2>2, <3>1 DEF Length
  <2> QED  BY <2>4, <2>6, <2>7 DEF ListingIsRanked
<1>2. ASSUME NEW i \in Requests, NEW r \in Traffic, BeginStore(i, r) \/ BeginList(i, r)
      PROVE  Kept
  BY <1>2 DEF BeginStore, BeginList, IInv, TypeOK
<1>3. ASSUME NEW i \in Requests, StoreOnBoard(i) \/ Resend(i) \/ Fail(i)
      PROVE  Kept
  BY <1>3 DEF StoreOnBoard, Resend, Fail, Abandoned, IInv, TypeOK
<1>4. (\E m \in limbo : ExecuteLate(m)) \/ UNCHANGED vars => Kept
  BY DEF ExecuteLate, locals, vars
<1>5. Kept => ListingIsRanked'
  BY DEF ListingIsRanked
<1> QED  BY <1>1, <1>2, <1>3, <1>4, <1>5 DEF Next, Respond

-----------------------------------------------------------------------------
LEMMA Invariance == Spec => []IInv
  BY InitIInv, NextKeepsIInv, PTL DEF Spec

\* The type invariant of the improvement boards.
THEOREM TypeCorrect == Spec => []TypeOK
<1>1. IInv => TypeOK
  BY DEF IInv
<1> QED  BY <1>1, Invariance, PTL

\* Segment boards stay within the global one (improvement_service.py:58), however
\* stores end and whichever copies arrive late.
THEOREM SegmentsStayWithin == Spec => []SegmentsWithinGlobal
<1>1. IInv => SegmentsWithinGlobal
  BY DEF IInv
<1> QED  BY <1>1, Invariance, PTL

\* What a store has written shows until a rival overwrites it
\* (improvement_service.py:53), and nothing of an earlier store comes back: for
\* any number of stores that meet, are repeated, end half-way or arrive late.
THEOREM RivalsOverwrite == Spec => []OnlyRivalsOverwrite
<1>1. IInv => OnlyRivalsOverwrite
  BY DEF IInv
<1> QED  BY <1>1, Invariance, PTL

\* Listings are ranked without gaps, nobody above one that has improved more,
\* and no longer than asked for, or of one tenant (improvement_service.py:109).
THEOREM ListingsAreRanked == Spec => []ListingIsRanked
<1>1. Init => ListingIsRanked
  BY DEF Init, ListingIsRanked
<1>2. IInv /\ ListingIsRanked /\ [Next]_vars => ListingIsRanked'
  BY NextKeepsRanked
<1> QED  BY <1>1, <1>2, Invariance, PTL DEF Spec
=============================================================================
