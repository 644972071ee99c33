----------------------------- MODULE AwardsProofs -----------------------------
(***************************************************************************)
(* Proofs about Awards, for any number of requests, badges, tenants and     *)
(* evidence tokens, and whether or not connections break.                   *)
(***************************************************************************)
EXTENDS Awards, TLAPS

\* A request that has got past the validation has a payload that passed it.
AskedWell ==
  \A i \in Requests :
    pc[i] \notin {"new", "invalid"} =>
      ask[i] \in Payloads /\ ask[i].evidence_ref # Malformed

\* Only a request that has been sent has a transaction, and while the handler
\* is about to send its COMMIT the transaction is open.
TxnOfAsked ==
  \A i \in Requests : /\ txn[i] # "none" => pc[i] \notin {"new", "invalid"}
                      /\ pc[i] = "commit" => txn[i] = "open"

\* While an INSERT is open, its key has no row and no other open INSERT: what
\* the unique index does for the rows that are not committed yet.
OpenInsertAlone ==
  \A i \in Requests : txn[i] \in {"open", "committing"} =>
    /\ RowsFor(ask[i].key) = {}
    /\ Uncommitted(ask[i].key) = {i}

\* Only an answer that grants an award carries one.
RepliesGrant ==
  \A i \in Requests : reply[i] # None => pc[i] \in {"awarded", "already_awarded"}

IInv == /\ TypeOK
        /\ AskedWell
        /\ TxnOfAsked
        /\ OpenInsertAlone
        /\ OneAwardPerKey
        /\ AnswerIsCommitted
        /\ RepliesGrant

\* The invariant holds initially.
LEMMA InitIInv == Init => IInv
  BY AwardsAssumption
  DEF Init, IInv, TypeOK, AskedWell, TxnOfAsked, OpenInsertAlone, OneAwardPerKey,
      AnswerIsCommitted, RepliesGrant, Waits, InTry, Answers

\* The row a sent request would insert is a row of the table's type.
LEMMA RowType ==
  ASSUME IInv, NEW i \in Requests, pc[i] \notin {"new", "invalid"}
  PROVE  /\ Row(i) \in Rows
         /\ Row(i).key = ask[i].key
         /\ ask[i].key \in Keys
  BY DEF IInv, AskedWell, Row, Rows, Payloads

\* Steps that leave the table and the transactions alone, and take request i
\* from one place of its handler to another without an award, keep the
\* invariant.
LEMMA MoveKeepsIInv ==
  ASSUME IInv, NEW i \in Requests, NEW at \in Waits \ {"commit"},
         pc[i] \in Waits, Goto(i, at), UNCHANGED <<table, txn>>
  PROVE  IInv'
<1> USE DEF IInv, Goto, Waits, InTry, Answers
<1>1. TypeOK'
  BY DEF TypeOK
<1>2. AskedWell' /\ TxnOfAsked'
  BY DEF AskedWell, TxnOfAsked, TypeOK
<1>3. OpenInsertAlone' /\ OneAwardPerKey'
  BY DEF OpenInsertAlone, OneAwardPerKey, RowsFor, Uncommitted
<1>4. AnswerIsCommitted' /\ RepliesGrant'
  BY DEF AnswerIsCommitted, RepliesGrant, RowsFor, TypeOK
<1> QED
  BY <1>1, <1>2, <1>3, <1>4

\* So do the steps that answer with a committed row of the key asked for.
LEMMA GrantKeepsIInv ==
  ASSUME IInv, NEW i \in Requests, NEW status \in {"awarded", "already_awarded"},
         pc[i] \in Waits, NEW row \in RowsFor(ask[i].key), Answer(i, status, row)
  PROVE  IInv'
<1> USE DEF IInv, Answer, Waits, InTry, Answers
<1>1. TypeOK'
  BY DEF TypeOK, RowsFor
<1>2. AskedWell' /\ TxnOfAsked'
  BY DEF AskedWell, TxnOfAsked, TypeOK
<1>3. OpenInsertAlone' /\ OneAwardPerKey'
  BY DEF OpenInsertAlone, OneAwardPerKey, RowsFor, Uncommitted
<1>4. AnswerIsCommitted' /\ RepliesGrant'
  BY DEF AnswerIsCommitted, RepliesGrant, RowsFor, TypeOK
<1> QED
  BY <1>1, <1>2, <1>3, <1>4

\* And those that answer with an error.
LEMMA FailKeepsIInv ==
  ASSUME IInv, NEW i \in Requests, pc[i] \in Waits, Answer(i, "error", None)
  PROVE  IInv'
<1> USE DEF IInv, Answer, Waits, InTry, Answers
<1>1. TypeOK'
  BY DEF TypeOK
<1>2. AskedWell' /\ TxnOfAsked'
  BY DEF AskedWell, TxnOfAsked, TypeOK
<1>3. OpenInsertAlone' /\ OneAwardPerKey'
  BY DEF OpenInsertAlone, OneAwardPerKey, RowsFor, Uncommitted
<1>4. AnswerIsCommitted' /\ RepliesGrant'
  BY DEF AnswerIsCommitted, RepliesGrant, RowsFor, TypeOK
<1> QED
  BY <1>1, <1>2, <1>3, <1>4

\* Every step keeps the invariant.
LEMMA NextIInv == IInv /\ [Next]_vars => IInv'
<1> SUFFICES ASSUME IInv, [Next]_vars PROVE IInv'
  OBVIOUS
<1>1. ASSUME NEW i \in Requests, NEW p \in Payloads, Submit(i, p) PROVE IInv'
  <2> USE <1>1 DEF IInv, Submit, Waits, InTry, Answers
  <2>1. TypeOK'
    BY DEF TypeOK
  <2>2. txn[i] = "none" /\ reply[i] = None
    BY DEF TxnOfAsked, RepliesGrant, TypeOK
  <2>3. AskedWell' /\ TxnOfAsked'
    BY <2>2 DEF AskedWell, TxnOfAsked, TypeOK
  <2>4. OpenInsertAlone' /\ OneAwardPerKey'
    BY <2>2 DEF OpenInsertAlone, OneAwardPerKey, RowsFor, Uncommitted, TypeOK
  <2>5. AnswerIsCommitted' /\ RepliesGrant'
    BY <2>2 DEF AnswerIsCommitted, RepliesGrant, RowsFor, TypeOK
  <2> QED
    BY <2>1, <2>3, <2>4, <2>5
<1>2. ASSUME NEW i \in Requests, NEW p \in Payloads, RefuseEvidence(i, p) PROVE IInv'
  <2> USE <1>2 DEF IInv, RefuseEvidence, Answer, Waits, InTry, Answers
  <2>1. TypeOK'
    BY DEF TypeOK
  <2>2. AskedWell' /\ TxnOfAsked'
    BY DEF AskedWell, TxnOfAsked, TypeOK
  <2>3. OpenInsertAlone' /\ OneAwardPerKey'
    BY DEF OpenInsertAlone, OneAwardPerKey, RowsFor, Uncommitted
  <2>4. AnswerIsCommitted' /\ RepliesGrant'
    BY DEF AnswerIsCommitted, RepliesGrant, RowsFor, TypeOK
  <2> QED
    BY <2>1, <2>2, <2>3, <2>4
<1>3. ASSUME NEW i \in Requests, FindAward(i) PROVE IInv'
  BY <1>3, MoveKeepsIInv, GrantKeepsIInv DEF FindAward, Waits, InTry
<1>4. ASSUME NEW i \in Requests, FindAgain(i) PROVE IInv'
  BY <1>4, MoveKeepsIInv, GrantKeepsIInv DEF FindAgain, Waits, InTry
<1>5. ASSUME NEW i \in Requests, Insert(i) PROVE IInv'
  <2>1. CASE RowsFor(ask[i].key) # {}
    BY <1>5, <2>1, MoveKeepsIInv DEF Insert, Waits, InTry
  <2>2. CASE RowsFor(ask[i].key) = {}
    <3> USE <1>5, <2>2 DEF IInv, Insert, Goto, Waits, InTry, Answers
    <3>1. TypeOK'
      BY DEF TypeOK
    <3>2. AskedWell' /\ TxnOfAsked'
      BY DEF AskedWell, TxnOfAsked, TypeOK
    <3>3. OpenInsertAlone'
      BY DEF OpenInsertAlone, RowsFor, Uncommitted, TypeOK
    <3>4. OneAwardPerKey' /\ AnswerIsCommitted' /\ RepliesGrant'
      BY DEF OneAwardPerKey, AnswerIsCommitted, RepliesGrant, RowsFor, TypeOK
    <3> QED
      BY <3>1, <3>2, <3>3, <3>4
  <2> QED
    BY <2>1, <2>2
<1>6. ASSUME NEW i \in Requests, Commit(i) PROVE IInv'
  <2> USE <1>6 DEF IInv, Commit, Goto, Waits, InTry, Answers
  <2>1. TypeOK'
    BY DEF TypeOK
  <2>2. AskedWell' /\ TxnOfAsked'
    BY DEF AskedWell, TxnOfAsked, TypeOK
  <2>3. OpenInsertAlone'
    <3>1. txn[i] = "open"
      BY DEF TxnOfAsked
    <3>2. \A j \in Requests : txn'[j] \in {"open", "committing"}
                               <=> txn[j] \in {"open", "committing"}
      BY <3>1 DEF TypeOK
    <3>3. \A k : RowsFor(k)' = RowsFor(k) /\ Uncommitted(k)' = Uncommitted(k)
      BY <3>2 DEF RowsFor, Uncommitted
    <3> QED
      BY <3>2, <3>3 DEF OpenInsertAlone
  <2>4. OneAwardPerKey' /\ AnswerIsCommitted' /\ RepliesGrant'
    BY DEF OneAwardPerKey, AnswerIsCommitted, RepliesGrant, RowsFor, TypeOK
  <2> QED
    BY <2>1, <2>2, <2>3, <2>4
<1>7. ASSUME NEW i \in Requests, CommitAnswered(i) PROVE IInv'
  BY <1>7, MoveKeepsIInv DEF CommitAnswered, Waits, InTry
<1>8. ASSUME NEW i \in Requests, Refresh(i) PROVE IInv'
  <2>1. pc[i] \in Waits /\ pc[i] \notin {"new", "invalid"}
    BY <1>8 DEF Refresh, Waits, InTry
  <2>2. Row(i) \in RowsFor(ask[i].key)
    BY <1>8, <2>1, RowType DEF Refresh, RowsFor
  <2> QED
    BY <1>8, <2>1, <2>2, GrantKeepsIInv DEF Refresh
<1>9. ASSUME NEW i \in Requests, Recover(i) PROVE IInv'
  BY <1>9, GrantKeepsIInv, FailKeepsIInv DEF Recover, Waits, InTry
<1>10. ASSUME NEW i \in Requests, Break(i) PROVE IInv'
  BY <1>10, MoveKeepsIInv, FailKeepsIInv DEF Break, BreakInTry, BreakOutside, Waits, InTry
<1>11. ASSUME NEW i \in Requests, ServerCommits(i) PROVE IInv'
  <2> USE <1>11 DEF IInv, ServerCommits
  <2>1. pc[i] \notin {"new", "invalid"}
    BY DEF TxnOfAsked
  <2>2. /\ Row(i) \in Rows
        /\ Row(i).key = ask[i].key
    BY <2>1, RowType
  <2>3. RowsFor(ask[i].key) = {} /\ Uncommitted(ask[i].key) = {i}
    BY DEF OpenInsertAlone
  <2>4. TypeOK' /\ AskedWell' /\ TxnOfAsked'
    BY <2>1, <2>2 DEF TypeOK, AskedWell, TxnOfAsked
  <2>5. OpenInsertAlone'
    <3> SUFFICES ASSUME NEW j \in Requests, txn'[j] \in {"open", "committing"}
                 PROVE  /\ RowsFor(ask[j].key)' = {}
                        /\ Uncommitted(ask[j].key)' = {j}
      BY DEF OpenInsertAlone
    <3>1. j # i /\ txn[j] \in {"open", "committing"}
      BY DEF TypeOK
    <3>2. ask[j].key # ask[i].key
      BY <2>3, <3>1 DEF Uncommitted
    <3>3. RowsFor(ask[j].key) = {} /\ Uncommitted(ask[j].key) = {j}
      BY <3>1 DEF OpenInsertAlone
    <3>4. RowsFor(ask[j].key)' = {}
      BY <3>2, <3>3, <2>2 DEF RowsFor
    <3>5. Uncommitted(ask[j].key)' = {j}
      BY <3>1, <3>2, <3>3 DEF Uncommitted, TypeOK
    <3> QED
      BY <3>4, <3>5
  <2>6. OneAwardPerKey'
    BY <2>2, <2>3 DEF OneAwardPerKey, RowsFor
  <2>7. AnswerIsCommitted' /\ RepliesGrant'
    BY DEF AnswerIsCommitted, RepliesGrant, RowsFor
  <2> QED
    BY <2>4, <2>5, <2>6, <2>7
<1>12. ASSUME NEW i \in Requests, ServerAborts(i) PROVE IInv'
  <2> USE <1>12 DEF IInv, ServerAborts
  <2>1. TypeOK' /\ AskedWell' /\ TxnOfAsked'
    BY DEF TypeOK, AskedWell, TxnOfAsked
  <2>2. OpenInsertAlone'
    BY DEF OpenInsertAlone, RowsFor, Uncommitted, TypeOK
  <2>3. OneAwardPerKey' /\ AnswerIsCommitted' /\ RepliesGrant'
    BY DEF OneAwardPerKey, AnswerIsCommitted, RepliesGrant, RowsFor
  <2> QED
    BY <2>1, <2>2, <2>3
<1>13. CASE UNCHANGED vars
  BY <1>13 DEF vars, IInv, TypeOK, AskedWell, TxnOfAsked, OpenInsertAlone, OneAwardPerKey,
               AnswerIsCommitted, RepliesGrant, RowsFor, Uncommitted
<1> QED
  BY <1>1, <1>2, <1>3, <1>4, <1>5, <1>6, <1>7, <1>8, <1>9, <1>10, <1>11, <1>12, <1>13
  DEF Next, Arrive, Handle, Server

\* The invariant holds in every reachable state.
THEOREM Invariance == Spec => []IInv
  BY InitIInv, NextIInv, PTL DEF Spec

\* The variables keep their types.
THEOREM TypeCorrect == Spec => []TypeOK
<1>1. IInv => TypeOK
  BY DEF IInv
<1> QED
  BY <1>1, Invariance, PTL

\* No badge is ever awarded twice to a tenant, whatever races or breaks.
THEOREM AwardedOnce == Spec => []OneAwardPerKey
<1>1. IInv => OneAwardPerKey
  BY DEF IInv
<1> QED
  BY <1>1, Invariance, PTL

\* Every answer that grants an award shows a committed row of that key.
THEOREM AnswersAreTrue == Spec => []AnswerIsCommitted
<1>1. IInv => AnswerIsCommitted
  BY DEF IInv
<1> QED
  BY <1>1, Invariance, PTL

\* All answers for one badge and tenant show the same award.
THEOREM AnswersAreOne == Spec => []AnswersAgree
<1>1. IInv => AnswersAgree
  BY DEF IInv, AnswersAgree, RepliesGrant, AnswerIsCommitted, OneAwardPerKey, RowsFor
<1> QED
  BY <1>1, Invariance, PTL

-----------------------------------------------------------------------------
(* Awards implements the write-once register.                               *)

\* The refinement mapping.
RegisterNow == [k \in Keys |-> IF RowsFor(k) = {} THEN None ELSE CHOOSE row \in RowsFor(k) : TRUE]
AskedNow == [i \in Requests |-> IF ask[i] = None THEN None ELSE ask[i].key]
StatusNow == [i \in Requests |-> IF pc[i] \in Waits THEN "open" ELSE pc[i]]

\* A key that has a row has it in the register.
LEMMA RegisterHasRow ==
  ASSUME IInv, NEW k \in Keys, NEW row \in RowsFor(k)
  PROVE  RegisterNow[k] = row /\ RegisterNow[k] # None
<1>1. \A other \in RowsFor(k) : other = row
  BY DEF IInv, OneAwardPerKey, RowsFor
<1>2. row # None
  BY AwardsAssumption DEF IInv, TypeOK, RowsFor
<1> QED  BY <1>1, <1>2 DEF RegisterNow

LEMMA InitRegister == Init => Register!RInit
  BY DEF Init, Register!RInit, RowsFor, Waits, InTry

\* Steps within the handler, and of a transaction that is rolled back, do not show.
LEMMA UnseenStep ==
  ASSUME UNCHANGED <<table, ask, reply>>, StatusNow' = StatusNow
  PROVE  UNCHANGED Register!rvars
  BY DEF Register!rvars, StatusNow, RowsFor

LEMMA MoveUnseen ==
  ASSUME IInv, NEW i \in Requests, NEW at \in Waits, pc[i] \in Waits, Goto(i, at), UNCHANGED table
  PROVE  UNCHANGED Register!rvars
<1>1. StatusNow' = StatusNow
  BY DEF Goto, StatusNow, IInv, TypeOK
<1> QED  BY <1>1, UnseenStep DEF Goto

\* A request that is sent has a key and is open.
LEMMA OpenRequest ==
  ASSUME IInv, NEW i \in Requests, pc[i] \in Waits
  PROVE  /\ StatusNow[i] = "open"
         /\ AskedNow[i] = ask[i].key
         /\ ask[i].key \in Keys
  BY AwardsAssumption DEF IInv, AskedWell, StatusNow, AskedNow, Payloads, Waits, InTry

\* Answering with a committed row tells of it.
LEMMA GrantTells ==
  ASSUME IInv, NEW i \in Requests, NEW status \in {"awarded", "already_awarded"},
         pc[i] \in Waits, NEW row \in RowsFor(ask[i].key), Answer(i, status, row)
  PROVE  Register!Tell(i, status)
<1>1. /\ StatusNow[i] = "open" /\ AskedNow[i] = ask[i].key /\ ask[i].key \in Keys
  BY OpenRequest
<1>2. RegisterNow[AskedNow[i]] = row /\ RegisterNow[AskedNow[i]] # None
  BY <1>1, RegisterHasRow
<1>3. StatusNow' = [StatusNow EXCEPT ![i] = status]
  BY DEF StatusNow, Answer, IInv, TypeOK, Waits, InTry
<1>4. reply' = [reply EXCEPT ![i] = row] /\ UNCHANGED <<table, ask>>
  BY DEF Answer
<1>5. RegisterNow' = RegisterNow /\ AskedNow' = AskedNow
  BY <1>4 DEF RegisterNow, AskedNow, RowsFor
<1> QED
  BY <1>1, <1>2, <1>3, <1>4, <1>5 DEF Register!Tell, RegisterNow, AskedNow, StatusNow

\* Answering with an error gives up.
LEMMA FailGivesUp ==
  ASSUME IInv, NEW i \in Requests, pc[i] \in Waits, Answer(i, "error", None)
  PROVE  Register!GiveUp(i)
<1>1. StatusNow[i] = "open"
  BY OpenRequest
<1>2. reply[i] = None
  BY DEF IInv, RepliesGrant, Waits, InTry
<1>3. StatusNow' = [StatusNow EXCEPT ![i] = "error"]
  BY DEF StatusNow, Answer, IInv, TypeOK, Waits, InTry
<1>4. UNCHANGED <<table, ask, reply>>
  BY <1>2 DEF Answer, IInv, TypeOK
<1>5. RegisterNow' = RegisterNow /\ AskedNow' = AskedNow
  BY <1>4 DEF RegisterNow, AskedNow, RowsFor
<1> QED
  BY <1>1, <1>3, <1>4, <1>5 DEF Register!GiveUp, RegisterNow, AskedNow, StatusNow

\* A COMMIT that is executed records the award, also of a request that has been
\* answered with an error in the meantime; none that has been told of an award is
\* still committing.
LEMMA CommitRecords ==
  ASSUME IInv, NEW i \in Requests, ServerCommits(i)
  PROVE  Register!Record(i)
<1> USE DEF IInv
<1>1. /\ txn[i] = "committing" /\ pc[i] \notin {"new", "invalid"}
      /\ RowsFor(ask[i].key) = {}
  BY DEF ServerCommits, TxnOfAsked, OpenInsertAlone
<1>2. Row(i) \in Rows /\ Row(i).key = ask[i].key /\ ask[i].key \in Keys
  BY <1>1, RowType
<1>3. AskedNow[i] = ask[i].key
  BY <1>1, AwardsAssumption DEF AskedNow, AskedWell
<1>4. StatusNow[i] \in {"open", "error"}
  <2>1. pc[i] \notin {"awarded", "already_awarded"}
    BY <1>1 DEF AnswerIsCommitted
  <2> QED  BY <1>1, <2>1 DEF StatusNow, TypeOK, Answers
<1>5. RegisterNow[ask[i].key] = None
  BY <1>1, <1>2 DEF RegisterNow
<1>6. RegisterNow' = [RegisterNow EXCEPT ![ask[i].key] = Row(i)]
  <2> SUFFICES ASSUME NEW k \in Keys
               PROVE  RegisterNow'[k] = IF k = ask[i].key THEN Row(i) ELSE RegisterNow[k]
    BY DEF RegisterNow
  <2>1. CASE k = ask[i].key
    <3>1. RowsFor(k)' = {Row(i)}
      BY <1>1, <1>2, <2>1 DEF ServerCommits, RowsFor
    <3> QED  BY <2>1, <3>1 DEF RegisterNow
  <2>2. CASE k # ask[i].key
    <3>1. RowsFor(k)' = RowsFor(k)
      BY <1>2, <2>2 DEF ServerCommits, RowsFor
    <3> QED  BY <2>2, <3>1 DEF RegisterNow
  <2> QED  BY <2>1, <2>2
<1>7. AskedNow' = AskedNow /\ StatusNow' = StatusNow /\ reply' = reply
  BY DEF ServerCommits, AskedNow, StatusNow
<1> QED
  BY <1>2, <1>3, <1>4, <1>5, <1>6, <1>7 DEF Register!Record, RegisterNow, AskedNow, StatusNow

\* Every step is a step of the register, or does not show there.
LEMMA NextRegister ==
  ASSUME IInv, [Next]_vars
  PROVE  [Register!RNext]_(Register!rvars)
<1>1. ASSUME NEW i \in Requests, NEW p \in Payloads, Submit(i, p)
      PROVE  Register!Ask(i, p.key) /\ p.key \in Keys
  <2>1. /\ StatusNow[i] = "new"
        /\ StatusNow' = [StatusNow EXCEPT ![i] = "open"]
    BY <1>1 DEF Submit, StatusNow, IInv, TypeOK, Waits, InTry
  <2>2. AskedNow' = [AskedNow EXCEPT ![i] = p.key]
    BY <1>1, AwardsAssumption DEF Submit, AskedNow, IInv, TypeOK
  <2>3. RegisterNow' = RegisterNow /\ reply' = reply
    BY <1>1 DEF Submit, RegisterNow, RowsFor
  <2>4. p.key \in Keys
    BY DEF Payloads
  <2> QED
    BY <2>1, <2>2, <2>3, <2>4 DEF Register!Ask, RegisterNow, AskedNow, StatusNow
<1>2. ASSUME NEW i \in Requests, NEW p \in Payloads, RefuseEvidence(i, p)
      PROVE  Register!TurnAway(i)
  <2>1. /\ StatusNow[i] = "new"
        /\ StatusNow' = [StatusNow EXCEPT ![i] = "invalid"]
    BY <1>2 DEF RefuseEvidence, Answer, StatusNow, IInv, TypeOK, Waits, InTry
  <2>2. UNCHANGED <<table, ask, reply>>
    BY <1>2 DEF RefuseEvidence, Answer, IInv, TypeOK, RepliesGrant
  <2>3. RegisterNow' = RegisterNow /\ AskedNow' = AskedNow
    BY <2>2 DEF RegisterNow, AskedNow, RowsFor
  <2> QED
    BY <2>1, <2>2, <2>3 DEF Register!TurnAway, RegisterNow, AskedNow, StatusNow
<1>3. ASSUME NEW i \in Requests, Handle(i) \/ Break(i)
      PROVE  \/ Register!Tell(i, "awarded") \/ Register!Tell(i, "already_awarded")
             \/ Register!GiveUp(i) \/ UNCHANGED Register!rvars
  <2>1. CASE FindAward(i)
    BY <2>1, MoveUnseen, GrantTells DEF FindAward, Waits, InTry
  <2>2. CASE FindAgain(i)
    BY <2>2, MoveUnseen, GrantTells DEF FindAgain, Waits, InTry
  <2>3. CASE Insert(i) \/ Commit(i) \/ CommitAnswered(i)
    BY <2>3, MoveUnseen DEF Insert, Commit, CommitAnswered, Waits, InTry
  <2>4. CASE Refresh(i)
    <3>1. pc[i] \in Waits /\ pc[i] \notin {"new", "invalid"}
      BY <2>4 DEF Refresh, Waits, InTry
    <3>2. Row(i) \in RowsFor(ask[i].key)
      BY <2>4, <3>1, RowType DEF Refresh, RowsFor
    <3> QED  BY <2>4, <3>1, <3>2, GrantTells DEF Refresh
  <2>5. CASE Recover(i)
    BY <2>5, GrantTells, FailGivesUp DEF Recover, Waits, InTry
  <2>6. CASE Break(i)
    BY <2>6, MoveUnseen, FailGivesUp DEF Break, BreakInTry, BreakOutside, Waits, InTry
  <2> QED
    BY <1>3, <2>1, <2>2, <2>3, <2>4, <2>5, <2>6 DEF Handle
<1>4. ASSUME NEW i \in Requests, ServerAborts(i)
      PROVE  UNCHANGED Register!rvars
  BY <1>4, UnseenStep DEF ServerAborts, StatusNow
<1>5. CASE UNCHANGED vars
  BY <1>5, UnseenStep DEF vars, StatusNow
<1> QED
  BY <1>1, <1>2, <1>3, <1>4, <1>5, CommitRecords DEF Next, Arrive, Server, Register!RNext

\* The service implements the write-once register (award_repository.py:51): no
\* race, broken connection or late commit changes an award that is there.
THEOREM AwardsImplementRegister == Spec => ImplementsRegister
<1>1. Init => Register!RInit
  BY InitRegister
<1>2. IInv /\ [Next]_vars => [Register!RNext]_(Register!rvars)
  BY NextRegister
<1> QED
  BY <1>1, <1>2, Invariance, PTL DEF Spec, ImplementsRegister, Register!RSpec
=============================================================================
