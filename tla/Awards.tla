-------------------------------- MODULE Awards --------------------------------
(***************************************************************************)
(* Granting achievements: check_achievement with award_repository, on the   *)
(* badge_award table of PostgreSQL.  Requests are handled by coroutines     *)
(* with a session each; every await is a database round trip during which   *)
(* other requests run, in this process or another.                          *)
(*                                                                          *)
(* The table has UNIQUE (badge_id, tenant_id).  An INSERT waits for an      *)
(* uncommitted row of the same key and fails on a committed one; SELECTs    *)
(* see committed rows (READ COMMITTED).  When a connection breaks, the      *)
(* server may still commit what it was asked to, at any later time.         *)
(***************************************************************************)
EXTENDS FiniteSets

CONSTANTS Requests,   \* one identity for each request
          Badges, Tenants,
          Evidence,   \* well-formed evidence_ref tokens
          Malformed,  \* any other token
          None,       \* no token, no award
          Faults      \* whether database connections break

Keys == Badges \X Tenants
Payloads == [key : Keys, evidence_ref : Evidence \cup {None, Malformed}]
\* award_id is a fresh UUID per INSERT, and a request inserts at most once.
Rows == [award_id : Requests, key : Keys, evidence_ref : Evidence \cup {None}]

ASSUME AwardsAssumption ==
  /\ None \notin Evidence /\ Malformed \notin Evidence /\ None # Malformed
  /\ None \notin Payloads /\ None \notin Rows
  /\ Faults \in BOOLEAN

VARIABLES table,  \* the committed rows of badge_award
          ask,    \* the payload of each request
          pc,     \* "new", the await the handler is at, or its answer's status
          txn,    \* the server's side of the request's INSERT
          reply   \* the award the answer carries

vars == <<table, ask, pc, txn, reply>>

InTry == {"insert", "commit", "committing", "refresh"}
Waits == {"find", "find_again", "recover"} \cup InTry
Answers == {"awarded", "already_awarded", "error", "invalid"}

TypeOK ==
  /\ table \subseteq Rows
  /\ ask \in [Requests -> Payloads \cup {None}]
  /\ pc \in [Requests -> {"new"} \cup Waits \cup Answers]
  /\ txn \in [Requests -> {"none", "open", "committing", "committed"}]
  /\ reply \in [Requests -> Rows \cup {None}]

Init ==
  /\ table = {}
  /\ ask = [i \in Requests |-> None]
  /\ pc = [i \in Requests |-> "new"]
  /\ txn = [i \in Requests |-> "none"]
  /\ reply = [i \in Requests |-> None]

-----------------------------------------------------------------------------
Row(i) == [award_id |-> i, key |-> ask[i].key, evidence_ref |-> ask[i].evidence_ref]
RowsFor(k) == {row \in table : row.key = k}
Uncommitted(k) == {j \in Requests : txn[j] \in {"open", "committing"} /\ ask[j].key = k}

Goto(i, at) == pc' = [pc EXCEPT ![i] = at] /\ UNCHANGED <<ask, reply>>

Answer(i, status, row) ==
  /\ pc' = [pc EXCEPT ![i] = status]
  /\ reply' = [reply EXCEPT ![i] = row]
  /\ UNCHANGED <<table, ask, txn>>

\* Mutant: evidence_ref is not validated.
SubmitUnvalidated(i, p) ==
  /\ pc[i] = "new"
  /\ ask' = [ask EXCEPT ![i] = p]
  /\ pc' = [pc EXCEPT ![i] = "find"]
  /\ UNCHANGED <<table, txn, reply>>

Submit(i, p) ==
  /\ pc[i] = "new"
  /\ p.evidence_ref # Malformed
  /\ ask' = [ask EXCEPT ![i] = p]
  /\ pc' = [pc EXCEPT ![i] = "find"]
  /\ UNCHANGED <<table, txn, reply>>

\* validate_evidence_ref: 422 before the handler runs.
RefuseEvidence(i, p) ==
  /\ pc[i] = "new"
  /\ p.evidence_ref = Malformed
  /\ Answer(i, "invalid", None)

\* Mutant: the look-up leaves out the badge.
FindAwardOfTenant(i) ==
  LET rows == {row \in table : row.key[2] = ask[i].key[2]}
  IN /\ pc[i] = "find"
     /\ \/ \E row \in rows : Answer(i, "already_awarded", row)
        \/ rows = {} /\ Goto(i, "find_again") /\ UNCHANGED <<table, txn>>

\* check_achievement: an award that is there is reported as such.
FindAward(i) ==
  /\ pc[i] = "find"
  /\ \/ \E row \in RowsFor(ask[i].key) : Answer(i, "already_awarded", row)
     \/ RowsFor(ask[i].key) = {} /\ Goto(i, "find_again") /\ UNCHANGED <<table, txn>>

\* save_award looks again; what it returns from here on is reported as awarded.
FindAgain(i) ==
  /\ pc[i] = "find_again"
  /\ \/ \E row \in RowsFor(ask[i].key) : Answer(i, "awarded", row)
     \/ RowsFor(ask[i].key) = {} /\ Goto(i, "insert") /\ UNCHANGED <<table, txn>>

\* Mutants: a table without the UNIQUE constraint; one whose constraint sees
\* committed rows only.
InsertUnconstrained(i) ==
  /\ pc[i] = "insert"
  /\ Uncommitted(ask[i].key) = {}
  /\ Goto(i, "commit") /\ txn' = [txn EXCEPT ![i] = "open"]
  /\ UNCHANGED table
InsertWithoutWaiting(i) ==
  /\ pc[i] = "insert"
  /\ IF RowsFor(ask[i].key) = {}
     THEN Goto(i, "commit") /\ txn' = [txn EXCEPT ![i] = "open"]
     ELSE Goto(i, "recover") /\ UNCHANGED txn
  /\ UNCHANGED table

\* session.commit(), its flush: the INSERT, once no other of that key is open.
Insert(i) ==
  /\ pc[i] = "insert"
  /\ Uncommitted(ask[i].key) = {}
  /\ IF RowsFor(ask[i].key) = {}
     THEN Goto(i, "commit") /\ txn' = [txn EXCEPT ![i] = "open"]
     ELSE Goto(i, "recover") /\ UNCHANGED txn
  /\ UNCHANGED table

\* session.commit(), its COMMIT.
Commit(i) ==
  /\ pc[i] = "commit"
  /\ Goto(i, "committing")
  /\ txn' = [txn EXCEPT ![i] = "committing"]
  /\ UNCHANGED table

CommitAnswered(i) ==
  /\ pc[i] = "committing"
  /\ txn[i] = "committed"
  /\ Goto(i, "refresh")
  /\ UNCHANGED <<table, txn>>

Refresh(i) ==
  /\ pc[i] = "refresh"
  /\ Row(i) \in table
  /\ Answer(i, "awarded", Row(i))

\* Mutants: the handler answers with the award it tried to save; it tries to
\* save again when it finds none.
RecoverUnchecked(i) == pc[i] = "recover" /\ Answer(i, "awarded", Row(i))
RecoverByRetry(i) ==
  /\ pc[i] = "recover"
  /\ \/ \E row \in RowsFor(ask[i].key) : Answer(i, "awarded", row)
     \/ RowsFor(ask[i].key) = {} /\ Goto(i, "insert") /\ UNCHANGED <<table, txn>>

\* except Exception: rollback, look again, and raise when there is no award.
Recover(i) ==
  /\ pc[i] = "recover"
  /\ \/ \E row \in RowsFor(ask[i].key) : Answer(i, "awarded", row)
     \/ RowsFor(ask[i].key) = {} /\ Answer(i, "error", None)

\* The connection breaks: inside the try block the handler recovers on a new
\* one, elsewhere the exception is the answer.  A break that loses the answer of
\* an INSERT the server has executed is the state after Insert and a break before
\* the COMMIT is sent: the transaction stays open, its key locked, until
\* ServerAborts.  At "insert" the server has not executed it, and drops it.
BreakInTry(i) ==
  /\ Faults
  /\ pc[i] \in InTry
  /\ Goto(i, "recover")
  /\ UNCHANGED <<table, txn>>

BreakOutside(i) ==
  /\ Faults
  /\ pc[i] \in {"find", "find_again", "recover"}
  /\ Answer(i, "error", None)

-----------------------------------------------------------------------------
(* PostgreSQL.                                                              *)

ServerCommits(i) ==
  /\ txn[i] = "committing"
  /\ txn' = [txn EXCEPT ![i] = "committed"]
  /\ table' = table \cup {Row(i)}
  /\ UNCHANGED <<ask, pc, reply>>

\* A transaction whose client is gone is rolled back.
ServerAborts(i) ==
  /\ txn[i] \in {"open", "committing"}
  /\ pc[i] \notin {"commit", "committing"}
  /\ txn' = [txn EXCEPT ![i] = "none"]
  /\ UNCHANGED <<table, ask, pc, reply>>

-----------------------------------------------------------------------------
Arrive(i) == \E p \in Payloads : Submit(i, p) \/ RefuseEvidence(i, p)

Handle(i) == \/ FindAward(i) \/ FindAgain(i) \/ Insert(i) \/ Commit(i)
             \/ CommitAnswered(i) \/ Refresh(i) \/ Recover(i)

Break(i) == BreakInTry(i) \/ BreakOutside(i)
Server(i) == ServerCommits(i) \/ ServerAborts(i)

Next == \E i \in Requests : Arrive(i) \/ Handle(i) \/ Break(i) \/ Server(i)

Spec == Init /\ [][Next]_vars

\* The event loop resumes every coroutine whose await is over, and the server
\* settles every transaction.
FairSpec == Spec /\ \A i \in Requests : WF_vars(Handle(i)) /\ WF_vars(Server(i))

-----------------------------------------------------------------------------
(* Properties.                                                              *)

\* A badge is awarded to a tenant once: however many requests pass both
\* look-ups before the first commit, and whenever an in-doubt commit lands.
OneAwardPerKey == \A row, other \in table : row.key = other.key => row = other

\* An answer with an award is true: that very row has been committed, for the
\* badge and tenant asked for, whichever of the four ways the handler got it.
AnswerIsCommitted ==
  \A i \in Requests :
    pc[i] \in {"awarded", "already_awarded"} =>
      reply[i] \in RowsFor(ask[i].key)

\* Two requests for the same badge and tenant are told of the same award.
AnswersAgree ==
  \A i, j \in Requests :
    (reply[i] # None /\ reply[j] # None /\ ask[i].key = ask[j].key) =>
      reply[i] = reply[j]

\* Every request is answered.
EveryRequestAnswered == \A i \in Requests : pc[i] # "new" ~> pc[i] \in Answers

\* Awards implements the write-once register: nothing a break, an in-doubt
\* commit or a race does changes an award that is there.
Register ==
  INSTANCE AwardRegister WITH
    Awards <- Rows, NoAward <- None, KeyOf <- LAMBDA row : row.key,
    register <- [k \in Keys |-> IF RowsFor(k) = {} THEN None
                                ELSE CHOOSE row \in RowsFor(k) : TRUE],
    asked <- [i \in Requests |-> IF ask[i] = None THEN None ELSE ask[i].key],
    status <- [i \in Requests |-> IF pc[i] \in Waits THEN "open" ELSE pc[i]],
    told <- reply

ImplementsRegister == Register!RSpec

\* "persists audit proof via structured evidence_ref tokens" (README.md:39):
\* the evidence of a request answered "awarded" is in the table.
AwardedEvidencePersisted ==
  \A i \in Requests :
    pc[i] = "awarded" => \E row \in RowsFor(ask[i].key) :
                           row.evidence_ref = ask[i].evidence_ref
=============================================================================
