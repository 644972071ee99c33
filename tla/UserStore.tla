------------------------------ MODULE UserStore ------------------------------
(***************************************************************************)
(* The table user_profile, the repository functions find_user and           *)
(* save_user, and the two endpoints on them.  Every call has a database     *)
(* session of its own; every await is a round trip during which other       *)
(* calls run.                                                               *)
(*                                                                          *)
(* The primary key (user_id, tenant_id) makes the table a function.  The    *)
(* session writes, in one transaction at commit, the columns that differ    *)
(* from the row it read; an UPDATE or INSERT waits for an uncommitted write *)
(* of the same row, and an INSERT fails on a committed one (READ COMMITTED).*)
(* When a connection breaks, the server may still commit what it was asked. *)
(***************************************************************************)
EXTENDS FiniteSets, TLC

CONSTANTS Calls,     \* one identity for each call
          Users,     \* <<user_id, tenant_id>> pairs
          Profiles,  \* the values save_user is called with
          NoRow,     \* no such row, no answer
          Breaks     \* whether database connections break

Columns == {"current_streak", "last_completion_time", "verified_activity_time"}

\* What a row can be: every column as in some profile.
Rows == [Columns -> UNION {{p[c] : c \in Columns} : p \in Profiles}]

Asks == [op : {"save"}, user : Users, row : Profiles]
          \cup [op : {"verify"}, user : Users, parses : BOOLEAN]
          \cup [op : {"get"}, user : Users]

ASSUME UserStoreAssumption ==
  /\ Profiles \subseteq Rows
  /\ NoRow \notin Rows \cup Asks
  /\ Breaks \in BOOLEAN

VARIABLES profiles,    \* the committed rows of user_profile
          call,        \* what each call asks
          at,          \* "new", the await it is at, or how it ended
          seen,        \* the row its first SELECT found
          txn,         \* the server's side of its transaction
          given,       \* the row it answers with
          overlapped   \* history: users of whom two saves have met

locals == <<call, at, seen, given>>
userVars == <<profiles, locals, txn, overlapped>>

Awaits == {"find", "flush", "commit", "refresh"}
Ends == {"saved", "found", "not_found", "invalid", "error"}

UserStoreTypeOK ==
  /\ profiles \in [Users -> Rows \cup {NoRow}]
  /\ call \in [Calls -> Asks \cup {NoRow}]
  /\ at \in [Calls -> {"new"} \cup Awaits \cup Ends]
  /\ seen \in [Calls -> Rows \cup {NoRow}]
  /\ txn \in [Calls -> {"none", "open", "committed", "aborted"}]
  /\ given \in [Calls -> Rows \cup {NoRow}]
  /\ overlapped \subseteq Users

UserStoreInit ==
  /\ profiles = [u \in Users |-> NoRow]
  /\ call = [i \in Calls |-> NoRow]
  /\ at = [i \in Calls |-> "new"]
  /\ seen = [i \in Calls |-> NoRow]
  /\ txn = [i \in Calls |-> "none"]
  /\ given = [i \in Calls |-> NoRow]
  /\ overlapped = {}

-----------------------------------------------------------------------------
End(i, outcome, row) ==
  /\ at' = [at EXCEPT ![i] = outcome]
  /\ given' = [given EXCEPT ![i] = row]
  /\ UNCHANGED <<profiles, call, seen, txn, overlapped>>

\* Saves of a user that have read and may still write.
Saving(u) == {i \in Calls : /\ call[i] # NoRow /\ call[i].user = u /\ call[i].op = "save"
                            /\ at[i] = "flush" \/ txn[i] = "open"}

Begin(i, ask) ==
  /\ at[i] = "new"
  /\ call' = [call EXCEPT ![i] = ask]
  /\ at' = [at EXCEPT ![i] = "find"]
  /\ UNCHANGED <<profiles, seen, given, txn, overlapped>>

\* verify_streak: both timestamps are parsed before the session is used, 400.
RefuseTimestamps(i, ask) ==
  /\ at[i] = "new"
  /\ ask.op = "verify" /\ ~ask.parses
  /\ call' = [call EXCEPT ![i] = ask]
  /\ at' = [at EXCEPT ![i] = "invalid"]
  /\ UNCHANGED <<profiles, seen, given, txn, overlapped>>

Ask(i, ask) == IF ask.op = "verify" /\ ~ask.parses THEN RefuseTimestamps(i, ask) ELSE Begin(i, ask)

\* get_user_streak: the row, or 404.
GetStreak(i) ==
  /\ at[i] = "find"
  /\ call[i].op = "get"
  /\ End(i, IF profiles[call[i].user] = NoRow THEN "not_found" ELSE "found", profiles[call[i].user])

\* verify_streak: find_user, then update_streak on a UserProfile of the package
\* app.models, which has no tenant_id: reading updated_user.tenant_id for the
\* arguments of save_user raises, and the call ends with 500 without a write.
VerifyStreak(i) ==
  /\ at[i] = "find"
  /\ call[i].op = "verify"
  /\ End(i, "error", NoRow)

\* save_user: find_user, then the attributes are set or a new object is added.
FindForSave(i) ==
  LET u == call[i].user
  IN /\ at[i] = "find"
     /\ call[i].op = "save"
     /\ seen' = [seen EXCEPT ![i] = profiles[u]]
     /\ at' = [at EXCEPT ![i] = "flush"]
     /\ overlapped' = IF Saving(u) = {} THEN overlapped ELSE overlapped \cup {u}
     /\ UNCHANGED <<profiles, call, given, txn>>

-----------------------------------------------------------------------------
(* session.commit(): flush and COMMIT.                                      *)

\* The columns an UPDATE sets: those that differ from the row that was read.
Dirty(i) == {c \in Columns : call[i].row[c] # seen[i][c]}

\* The row is not locked by another transaction.
Unlocked(i) == \A j \in Calls : ~(txn[j] = "open" /\ call[j].user = call[i].user)

Send(i) == /\ at' = [at EXCEPT ![i] = "commit"]
           /\ txn' = [txn EXCEPT ![i] = "open"]
           /\ UNCHANGED <<profiles, call, seen, given, overlapped>>

FlushUpdate(i) ==
  /\ at[i] = "flush"
  /\ seen[i] # NoRow
  /\ Dirty(i) # {}
  /\ Unlocked(i)
  /\ Send(i)

\* Nothing has changed: commit sends no statement.
FlushNothing(i) ==
  /\ at[i] = "flush"
  /\ seen[i] # NoRow
  /\ Dirty(i) = {}
  /\ at' = [at EXCEPT ![i] = "refresh"]
  /\ UNCHANGED <<profiles, call, seen, given, txn, overlapped>>

\* Mutants: a table without the primary key's constraint; an INSERT that waits
\* for the row to go.
FlushInsertUnconstrained(i) ==
  /\ at[i] = "flush"
  /\ seen[i] = NoRow
  /\ Unlocked(i)
  /\ Send(i)

FlushInsertWaiting(i) ==
  /\ at[i] = "flush"
  /\ seen[i] = NoRow
  /\ Unlocked(i)
  /\ profiles[call[i].user] = NoRow
  /\ Send(i)

\* An INSERT of a row that is there by now raises IntegrityError, which nobody
\* handles: 500.
FlushInsert(i) ==
  /\ at[i] = "flush"
  /\ seen[i] = NoRow
  /\ Unlocked(i)
  /\ IF profiles[call[i].user] = NoRow THEN Send(i) ELSE End(i, "error", NoRow)

\* session.refresh(): the row as it is now.
Refresh(i) ==
  /\ at[i] = "refresh"
  /\ End(i, "saved", profiles[call[i].user])

CommitAnswered(i) ==
  /\ at[i] = "commit"
  /\ txn[i] = "committed"
  /\ at' = [at EXCEPT ![i] = "refresh"]
  /\ UNCHANGED <<profiles, call, seen, given, txn, overlapped>>

\* The connection breaks: the exception ends the call.  A break that loses the
\* answer of a statement the server has executed is a break at "commit": the
\* transaction stays open, the row locked, until the server ends it.
Break(i) ==
  /\ Breaks
  /\ at[i] \in Awaits
  /\ End(i, "error", NoRow)

-----------------------------------------------------------------------------
(* PostgreSQL.                                                              *)

\* Mutant: verified_activity_time is not set on an existing profile.
WrittenWithoutActivity(i) ==
  IF seen[i] = NoRow THEN call[i].row
  ELSE [c \in Columns |-> IF c \in Dirty(i) \ {"verified_activity_time"}
                          THEN call[i].row[c] ELSE profiles[call[i].user][c]]

\* What a transaction makes of the row: all of it, or the columns it sets.
Written(i) ==
  IF seen[i] = NoRow THEN call[i].row
  ELSE [c \in Columns |-> IF c \in Dirty(i) THEN call[i].row[c] ELSE profiles[call[i].user][c]]

ServerCommits(i) ==
  /\ txn[i] = "open"
  /\ profiles' = [profiles EXCEPT ![call[i].user] = Written(i)]
  /\ txn' = [txn EXCEPT ![i] = "committed"]
  /\ UNCHANGED <<locals, overlapped>>

\* A transaction whose client is gone may be rolled back instead.
ServerAborts(i) ==
  /\ txn[i] = "open"
  /\ at[i] # "commit"
  /\ txn' = [txn EXCEPT ![i] = "aborted"]
  /\ UNCHANGED <<profiles, locals, overlapped>>

-----------------------------------------------------------------------------
Step(i) == \/ GetStreak(i) \/ VerifyStreak(i) \/ FindForSave(i)
           \/ FlushUpdate(i) \/ FlushNothing(i) \/ FlushInsert(i)
           \/ CommitAnswered(i) \/ Refresh(i)

Settle(i) == ServerCommits(i) \/ ServerAborts(i)

UserStoreNext ==
  \E i \in Calls : (\E ask \in Asks : Ask(i, ask)) \/ Step(i) \/ Break(i) \/ Settle(i)

UserStoreSpec == UserStoreInit /\ [][UserStoreNext]_userVars

\* The event loop resumes every coroutine whose await is over, and the server
\* settles every transaction; of one call the two never wait together.
UserStoreFairness == \A i \in Calls : WF_userVars(Step(i) \/ Settle(i))

-----------------------------------------------------------------------------
(* Properties.                                                              *)

\* Saves of a user that do not meet leave what one of them asked for, in every
\* column: partial updates, connections that break and commits that land late
\* tear no row on their own.  (Saves that meet can: see the README.)
LoneSavesAreWhole ==
  \A u \in Users \ overlapped :
    profiles[u] = NoRow \/ \E i \in Calls : /\ call[i] # NoRow /\ call[i].op = "save"
                                            /\ call[i].user = u /\ call[i].row = profiles[u]

\* However many first saves of a user race, one inserts the profile: no other
\* overwrites it with a row made in ignorance of it.
OneInsertPerUser ==
  \A i, j \in Calls :
    (/\ txn[i] = "committed" /\ seen[i] = NoRow
     /\ txn[j] = "committed" /\ seen[j] = NoRow
     /\ call[i].user = call[j].user) => i = j

\* Every call ends, although saves wait for each other's transactions.
EveryCallEnds == \A i \in Calls : at[i] # "new" ~> at[i] \in Ends

\* "POST /api/v1/streak/verify - Evaluate activity timestamps and update
\* consecutive streaks" (README.md:276): a verification whose timestamps parse
\* leaves the user with a profile.
VerifiedStreakIsStored ==
  \A i \in Calls :
    (at[i] \in Ends \ {"invalid"} /\ call[i].op = "verify") => profiles[call[i].user] # NoRow
=============================================================================
