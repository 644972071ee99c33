----------------------------- MODULE UserProofs -----------------------------
(***************************************************************************)
(* Proofs about what is kept of a user: a profile, for any length of a day, *)
(* times, milestones and hidden badges; and the table of profiles, for any  *)
(* calls, users and profiles, and whether or not connections break.         *)
(***************************************************************************)
EXTENDS Profile, UserStore, FiniteSetTheorems, TLAPS

-----------------------------------------------------------------------------
(* Profile.                                                                 *)

\* The history variables know the present: the longest streak is not shorter
\* than the current one.
PeakIsLongest == peak >= user.current_streak

ProfileInv == ProfileTypeOK /\ PeakIsLongest /\ StreakPaced /\ BadgesEarned

-----------------------------------------------------------------------------
\* A non-empty finite set of numbers has a greatest member, which Max chooses:
\* a smallest non-empty subset without one would lose it with any member.
LEMMA MaxOfFinite ==
  ASSUME NEW S \in SUBSET Nat, IsFiniteSet(S), S # {}
  PROVE  Max(S) \in S /\ \A n \in S : Max(S) >= n
<1> DEFINE HasMax(T) == \E m \in T : \A n \in T : m >= n
           Bad == {T \in SUBSET S : T # {} /\ ~HasMax(T)}
<1>1. Bad = {}
  <2> SUFFICES ASSUME Bad # {} PROVE FALSE
    OBVIOUS
  <2>1. IsWellFoundedOn(StrictSubsetOrdering(S), SUBSET S)
    BY FS_FiniteSubsetsOfFinite, FS_StrictSubsetOrderingWellFounded
  <2>2. PICK T \in Bad : \A U \in Bad : <<U, T>> \notin StrictSubsetOrdering(S)
    <3>1. Bad \subseteq SUBSET S
      OBVIOUS
    <3> HIDE DEF Bad
    <3> QED  BY <2>1, <3>1, WFMin
  <2>3. PICK x \in T : TRUE
    OBVIOUS
  <2> DEFINE U == T \ {x}
  <2>4. <<U, T>> \in StrictSubsetOrdering(S)
    BY <2>3 DEF StrictSubsetOrdering
  <2>5. U \notin Bad
    BY <2>2, <2>4
  <2>6. CASE U = {}
    <3>1. T = {x}
      BY <2>3, <2>6
    <3>2. x \in Nat
      BY <2>3
    <3>3. \A n \in T : x >= n
      BY <3>1, <3>2
    <3> QED  BY <3>3, <2>3
  <2>7. CASE HasMax(U)
    <3>1. PICK m \in U : \A n \in U : m >= n
      BY <2>7
    <3>2. m \in T /\ m \in Nat /\ x \in Nat /\ T \subseteq Nat
      BY <2>3
    <3>3. \A n \in T : n = x \/ m >= n
      BY <3>1
    <3>4. CASE m >= x
      <4>1. \A n \in T : m >= n
        BY <3>2, <3>3, <3>4
      <4> QED  BY <4>1, <3>2
    <3>5. CASE ~(m >= x)
      <4>1. \A n \in T : x >= n
        BY <3>2, <3>3, <3>5
      <4> QED  BY <4>1, <2>3
    <3> QED  BY <3>4, <3>5
  <2> QED  BY <2>5, <2>6, <2>7
<1>2. HasMax(S)
  BY <1>1
<1> QED  BY <1>2 DEF Max

\* What is known of the milestone that award_milestone_badge picks.
LEMMA HighestReached ==
  ASSUME ProfileTypeOK, Reached(user) # {}
  PROVE  Max(Reached(user)) \in Milestones /\ user.current_streak >= Max(Reached(user))
<1>1. Reached(user) \in SUBSET Nat /\ Reached(user) \subseteq Milestones
  BY ProfileAssumption DEF Reached, Milestones
<1>2. IsFiniteSet(Reached(user))
  BY <1>1, FS_Subset, ProfileAssumption DEF Milestones
<1>3. Max(Reached(user)) \in Reached(user)
  BY <1>1, <1>2, MaxOfFinite
<1> QED  BY <1>3 DEF Reached

-----------------------------------------------------------------------------
(* The initial states.                                                      *)

LEMMA InitProfileInv == ProfileInit => ProfileInv
<1> SUFFICES ASSUME ProfileInit PROVE ProfileInv
  OBVIOUS
<1>0. /\ user \in [current_streak : Nat,
                   last_completion_time : Times \cup {NoTime},
                   verified_activity_time : Times \cup {NoTime},
                   badges : {<<>>}]
      /\ start = [streak |-> user.current_streak, at |-> user.last_completion_time]
      /\ peak = user.current_streak
  BY ProfileAssumption DEF ProfileInit
<1>1. ProfileTypeOK /\ user.badges = <<>>
  <2>1. <<>> \in Seq(Badges)
    OBVIOUS
  <2>2. user.badges \in Seq(Badges)
    BY <1>0, <2>1
  <2>3. user \in UserProfile
    <3>1. user = [current_streak |-> user.current_streak,
                  last_completion_time |-> user.last_completion_time,
                  verified_activity_time |-> user.verified_activity_time,
                  badges |-> user.badges]
      BY <1>0
    <3>2. /\ user.current_streak \in Nat
          /\ user.last_completion_time \in Times \cup {NoTime}
          /\ user.verified_activity_time \in Times \cup {NoTime}
      BY <1>0
    <3> QED  BY <3>1, <3>2, <2>2, Zenon DEF UserProfile
  <2> QED  BY <1>0, <2>3 DEF ProfileTypeOK
<1>2. PeakIsLongest
  BY <1>0 DEF PeakIsLongest
<1>3. StreakPaced
  <2>1. user.current_streak \in Nat /\ Day \in Nat
    BY <1>0, ProfileAssumption
  <2>2. user.current_streak - start.streak = 0 /\ 0 * Day = 0 /\ 2 * 0 * Day = 0
    BY <1>0, <2>1
  <2>3. user.last_completion_time # NoTime =>
          start.at # NoTime /\ user.last_completion_time - start.at = 0
    <3>1. start.at = user.last_completion_time
      BY <1>0
    <3>2. user.last_completion_time # NoTime => user.last_completion_time \in Int
      BY <1>0, ProfileAssumption
    <3> QED  BY <3>1, <3>2
  <2> DEFINE gained == user.current_streak - start.streak
             elapsed == user.last_completion_time - start.at
  <2>4. user.last_completion_time # NoTime => elapsed >= gained * Day /\ elapsed <= 2 * gained * Day
    <3>1. gained = 0 /\ (user.last_completion_time # NoTime => elapsed = 0)
      BY <2>2, <2>3
    <3> HIDE DEF gained, elapsed
    <3> QED  BY <2>1, <3>1
  <2> QED  BY <2>3, <2>4 DEF StreakPaced
<1>4. BadgesEarned
  BY <1>1 DEF BadgesEarned
<1> QED  BY <1>1, <1>2, <1>3, <1>4 DEF ProfileInv

-----------------------------------------------------------------------------
(* Completions.                                                             *)

\* What a completion that counts does to the profile.
LEMMA CountedCompletion ==
  ASSUME ProfileTypeOK, NEW now \in Times, Complete(now), Counts(user, now)
  PROVE  /\ user'.last_completion_time = now
         /\ user'.verified_activity_time = user.verified_activity_time
         /\ user'.badges = user.badges
         /\ user'.current_streak = IF Continues(user, now) THEN user.current_streak + 1 ELSE 1
         /\ user' # user
         /\ now # NoTime /\ now \in Int
<1>1. /\ user' = [user EXCEPT !.current_streak = IF Continues(user, now) THEN @ + 1 ELSE 1,
                              !.last_completion_time = now]
      /\ now # NoTime /\ now \in Int
  BY ProfileAssumption DEF Complete, update_streak
<1>2. user.last_completion_time # now
  BY <1>1, ProfileAssumption DEF Counts, ProfileTypeOK, UserProfile
<1> QED  BY <1>1, <1>2 DEF ProfileTypeOK, UserProfile

\* Within the window a completion adds one to the streak and one to two days to
\* its length; beyond it the streak begins again.
LEMMA CompletePaced ==
  ASSUME ProfileInv, NEW now \in Times, Complete(now)
  PROVE  StreakPaced'
<1> DEFINE s == user.current_streak
           last == user.last_completion_time
<1>t. /\ s \in Nat /\ last \in Times \cup {NoTime}
      /\ start.streak \in Nat /\ start.at \in Times \cup {NoTime}
      /\ Day \in Nat \ {0} /\ Times \subseteq Int
  BY ProfileAssumption DEF ProfileInv, ProfileTypeOK, UserProfile
<1>1. CASE ~Counts(user, now)
  <2>1. user' = user
    BY <1>1 DEF Complete, update_streak
  <2>2. start' = start
    BY <2>1 DEF Complete
  <2> QED  BY <2>1, <2>2 DEF ProfileInv, StreakPaced
<1>2. CASE Counts(user, now) /\ user'.current_streak = 1
  <2>1. user'.last_completion_time = now /\ user' # user
    BY <1>2, CountedCompletion DEF ProfileInv
  <2>2. start' = [streak |-> 1, at |-> now]
    BY <1>2, <2>1 DEF Complete
  <2>3. now # NoTime /\ now - now = 0 /\ (1 - 1) * Day = 0 /\ 2 * (1 - 1) * Day = 0
    BY <1>t, ProfileAssumption
  <2> QED  BY <1>2, <2>1, <2>2, <2>3 DEF StreakPaced
<1>3. CASE Counts(user, now) /\ user'.current_streak # 1
  <2>1. /\ user'.last_completion_time = now
        /\ user'.current_streak = s + 1
        /\ Continues(user, now)
        /\ now # NoTime /\ now \in Int
    BY <1>3, CountedCompletion DEF ProfileInv
  <2>2. start' = start
    BY <1>3 DEF Complete
  <2> DEFINE gained == s - start.streak
             elapsed == last - start.at
  <2>3. /\ last \in Int /\ start.at \in Int /\ start.at # NoTime
        /\ elapsed >= gained * Day /\ elapsed <= 2 * gained * Day
        /\ now - last >= Day /\ now - last <= 2 * Day
    BY <1>3, <1>t, <2>1, ProfileAssumption DEF ProfileInv, StreakPaced, Counts, Continues
  <2>4. /\ gained \in Int /\ s + 1 - start.streak = gained + 1
        /\ (gained + 1) * Day = gained * Day + Day
        /\ 2 * (gained + 1) * Day = 2 * gained * Day + 2 * Day
        /\ gained * Day \in Int /\ 2 * gained * Day \in Int
    BY <1>t
  <2>5. now - start.at = elapsed + (now - last) /\ elapsed \in Int /\ now - last \in Int
    BY <2>1, <2>3
  <2>6. elapsed + (now - last) >= gained * Day + Day
    <3> HIDE DEF gained, elapsed
    <3> QED  BY <2>3, <2>4, <2>5, <1>t
  <2>7. elapsed + (now - last) <= 2 * gained * Day + 2 * Day
    <3> HIDE DEF gained, elapsed
    <3> QED  BY <2>3, <2>4, <2>5, <1>t
  <2>8. /\ now - start.at >= (s + 1 - start.streak) * Day
        /\ now - start.at <= 2 * (s + 1 - start.streak) * Day
    BY <2>4, <2>5, <2>6, <2>7
  <2> DEFINE gain == user'.current_streak - start'.streak
             lapse == user'.last_completion_time - start'.at
  <2>9. lapse >= gain * Day /\ lapse <= 2 * gain * Day
    <3>1. start'.streak = start.streak /\ start'.at = start.at
      BY <2>2
    <3>2. gain = s + 1 - start.streak /\ lapse = now - start.at
      BY <1>t, <2>1, <2>3, <3>1
    <3> HIDE DEF gain, lapse
    <3> QED  BY <2>8, <3>2, Zenon
  <2>10. start'.at # NoTime
    BY <2>2, <2>3
  <2> QED  BY <2>9, <2>10 DEF StreakPaced
<1> QED  BY <1>1, <1>2, <1>3

\* A completion keeps the badges, and the longest streak does not shrink.
LEMMA CompleteKeepsProfileInv ==
  ASSUME ProfileInv, NEW now \in Times, Complete(now)
  PROVE  ProfileInv'
<1>1. ProfileTypeOK
  BY DEF ProfileInv
<1>2. /\ user'.badges = user.badges
      /\ user' \in UserProfile
  <2>1. CASE Counts(user, now)
    <3>1. user' = [user EXCEPT !.current_streak = IF Continues(user, now) THEN @ + 1 ELSE 1,
                               !.last_completion_time = now]
      BY <2>1 DEF Complete, update_streak
    <3>2. user \in UserProfile
      BY <1>1 DEF ProfileTypeOK
    <3>3. (IF Continues(user, now) THEN user.current_streak + 1 ELSE 1) \in Nat
      BY <3>2 DEF UserProfile
    <3> QED  BY <3>1, <3>2, <3>3 DEF UserProfile
  <2>2. CASE ~Counts(user, now)
    BY <1>1, <2>2 DEF Complete, update_streak, ProfileTypeOK
  <2> QED  BY <2>1, <2>2
<1>3. ProfileTypeOK' /\ PeakIsLongest' /\ peak' >= peak /\ peak' \in Nat /\ peak \in Nat
  <2>1. user'.current_streak \in Nat
    BY <1>2 DEF UserProfile
  <2>2. start' \in [streak : Nat, at : Times \cup {NoTime}]
    BY <1>1 DEF Complete, ProfileTypeOK
  <2>3. peak \in Nat
    BY <1>1 DEF ProfileTypeOK
  <2> QED  BY <1>2, <2>1, <2>2, <2>3 DEF Complete, ProfileTypeOK, PeakIsLongest
<1>4. StreakPaced'
  BY CompletePaced
<1>5. BadgesEarned'
  <2>1. \A n \in Milestones : n \in Int
    BY ProfileAssumption DEF Milestones
  <2>2. \A h \in Hidden : h[2] \in Int
    BY ProfileAssumption
  <2>3. \A n \in Int : peak >= n => peak' >= n
    BY <1>3
  <2>4. BadgesEarned
    BY DEF ProfileInv
  <2> QED  BY <1>2, <2>1, <2>2, <2>3, <2>4 DEF BadgesEarned, Milestones
<1> QED  BY <1>3, <1>4, <1>5 DEF ProfileInv

-----------------------------------------------------------------------------
(* Badges.                                                                  *)

\* Adding a badge whose streak the user has had keeps the invariant.
LEMMA WithBadgeKeepsProfileInv ==
  ASSUME ProfileInv, NEW badge \in Badges,
         \/ \E n \in Milestones : badge = BadgeDefinitions[n] /\ peak >= n
         \/ \E h \in Hidden : badge = h[1] /\ peak >= h[2],
         user' = WithBadge(user, badge), UNCHANGED <<start, peak>>
  PROVE  ProfileInv'
<1>1. CASE \E k \in DOMAIN user.badges : user.badges[k] = badge
  <2>1. user' = user
    BY <1>1 DEF WithBadge
  <2> QED  BY <2>1 DEF ProfileInv, ProfileTypeOK, PeakIsLongest, StreakPaced, BadgesEarned
<1>2. CASE ~\E k \in DOMAIN user.badges : user.badges[k] = badge
  <2>1. user' = [user EXCEPT !.badges = Append(@, badge)]
    BY <1>2 DEF WithBadge
  <2>2. user \in UserProfile
    BY DEF ProfileInv, ProfileTypeOK
  <2>3. /\ user'.badges = Append(user.badges, badge)
        /\ user'.current_streak = user.current_streak
        /\ user'.last_completion_time = user.last_completion_time
        /\ user' \in UserProfile
    <3>1. user.badges \in Seq(Badges)
      BY <2>2 DEF UserProfile
    <3>2. Append(user.badges, badge) \in Seq(Badges)
      BY <3>1
    <3> QED  BY <2>1, <2>2, <3>2 DEF UserProfile
  <2>4. ProfileTypeOK' /\ PeakIsLongest' /\ StreakPaced'
    BY <2>3 DEF ProfileInv, ProfileTypeOK, PeakIsLongest, StreakPaced
  <2>5. BadgesEarned'
    <3> DEFINE old == user.badges
               new == Append(old, badge)
               Earned(b) == \/ \E n \in Milestones : b = BadgeDefinitions[n] /\ peak >= n
                            \/ \E h \in Hidden : b = h[1] /\ peak >= h[2]
    <3>1. old \in Seq(Badges)
      BY <2>2 DEF UserProfile
    <3>2. /\ DOMAIN new = 1..Len(old) + 1 /\ DOMAIN old = 1..Len(old) /\ Len(old) \in Nat
          /\ \A k \in 1..Len(old) : new[k] = old[k]
          /\ new[Len(old) + 1] = badge
      BY <3>1
    <3>3. /\ \A j, k \in DOMAIN old : old[j] = old[k] => j = k
          /\ \A k \in DOMAIN old : Earned(old[k])
      BY DEF ProfileInv, BadgesEarned
    <3>4. Earned(badge)
      OBVIOUS
    <3> HIDE DEF Earned, old, new
    <3>5. \A k \in DOMAIN new : Earned(new[k])
      BY <3>2, <3>3, <3>4
    <3>6. \A k \in DOMAIN old : old[k] # badge
      BY <1>2 DEF old
    <3>7. \A j, k \in DOMAIN new : new[j] = new[k] => j = k
      BY <3>2, <3>3, <3>6
    <3>8. user'.badges = new
      BY <2>3 DEF new, old
    <3> QED  BY <3>5, <3>7, <3>8 DEF BadgesEarned, Earned
  <2> QED  BY <2>4, <2>5 DEF ProfileInv
<1> QED  BY <1>1, <1>2

LEMMA AwardKeepsProfileInv ==
  ASSUME ProfileInv, Award
  PROVE  ProfileInv'
<1>1. CASE Reached(user) = {}
  <2>1. UNCHANGED profileVars
    BY <1>1 DEF Award, award_milestone_badge, profileVars
  <2> QED  BY <2>1 DEF ProfileInv, ProfileTypeOK, PeakIsLongest, StreakPaced, BadgesEarned, profileVars
<1>2. CASE Reached(user) # {}
  <2> DEFINE n == Max(Reached(user))
  <2>1. n \in Milestones /\ user.current_streak >= n
    BY <1>2, HighestReached DEF ProfileInv
  <2>2. peak >= n
    <3>1. n \in Nat /\ user.current_streak \in Nat /\ peak \in Nat
      BY <2>1, ProfileAssumption DEF Milestones, ProfileInv, ProfileTypeOK, UserProfile
    <3> HIDE DEF n
    <3> QED  BY <2>1, <3>1 DEF ProfileInv, PeakIsLongest
  <2>3. BadgeDefinitions[n] \in Badges
    BY <2>1 DEF Badges
  <2>4. user' = WithBadge(user, BadgeDefinitions[n]) /\ UNCHANGED <<start, peak>>
    BY <1>2 DEF Award, award_milestone_badge
  <2> HIDE DEF n
  <2> QED  BY <2>1, <2>2, <2>3, <2>4, WithBadgeKeepsProfileInv
<1> QED  BY <1>1, <1>2

LEMMA RevealKeepsProfileInv ==
  ASSUME ProfileInv, NEW h \in Hidden, Reveal(h)
  PROVE  ProfileInv'
<1>1. CASE user.current_streak >= h[2]
  <2>1. peak >= h[2]
    BY <1>1, ProfileAssumption DEF ProfileInv, PeakIsLongest, ProfileTypeOK, UserProfile
  <2>2. user' = WithBadge(user, h[1]) /\ UNCHANGED <<start, peak>> /\ h[1] \in Badges
    BY <1>1 DEF Reveal, reveal_hidden_badge, Badges
  <2> QED  BY <2>1, <2>2, WithBadgeKeepsProfileInv
<1>2. CASE ~(user.current_streak >= h[2])
  <2>1. UNCHANGED profileVars
    BY <1>2 DEF Reveal, reveal_hidden_badge, profileVars
  <2> QED  BY <2>1 DEF ProfileInv, ProfileTypeOK, PeakIsLongest, StreakPaced, BadgesEarned, profileVars
<1> QED  BY <1>1, <1>2

-----------------------------------------------------------------------------
LEMMA NextKeepsProfileInv == ProfileInv /\ [ProfileNext]_profileVars => ProfileInv'
<1> SUFFICES ASSUME ProfileInv, [ProfileNext]_profileVars PROVE ProfileInv'
  OBVIOUS
<1>1. ASSUME NEW now \in Times, Complete(now) PROVE ProfileInv'
  BY <1>1, CompleteKeepsProfileInv
<1>2. CASE Award
  BY <1>2, AwardKeepsProfileInv
<1>3. ASSUME NEW h \in Hidden, Reveal(h) PROVE ProfileInv'
  BY <1>3, RevealKeepsProfileInv
<1>4. CASE UNCHANGED profileVars
  BY <1>4 DEF ProfileInv, ProfileTypeOK, PeakIsLongest, StreakPaced, BadgesEarned, profileVars
<1> QED  BY <1>1, <1>2, <1>3, <1>4 DEF ProfileNext

LEMMA ProfileInvariance == ProfileSpec => []ProfileInv
  BY InitProfileInv, NextKeepsProfileInv, PTL DEF ProfileSpec

\* The type invariant of the profile.
THEOREM ProfileTypeCorrect == ProfileSpec => []ProfileTypeOK
<1>1. ProfileInv => ProfileTypeOK
  BY DEF ProfileInv
<1> QED  BY <1>1, ProfileInvariance, PTL

\* A streak keeps pace with the days, for any window of one to two days,
\* whatever times completions are reported with (streak.py:21).
THEOREM StreaksArePaced == ProfileSpec => []StreakPaced
<1>1. ProfileInv => StreakPaced
  BY DEF ProfileInv
<1> QED  BY <1>1, ProfileInvariance, PTL

\* No badge twice and none without its streak (badges.py:28), for any finite
\* table of milestones.
THEOREM BadgesAreEarned == ProfileSpec => []BadgesEarned
<1>1. ProfileInv => BadgesEarned
  BY DEF ProfileInv
<1> QED  BY <1>1, ProfileInvariance, PTL

-----------------------------------------------------------------------------
(* UserStore.                                                               *)

\* What is known of a call by the place it is at: only saves have transactions,
\* and none before it is sent.
CallsInPlace ==
  \A i \in Calls :
    /\ at[i] = "new" => call[i] = NoRow
    /\ at[i] # "new" => call[i] \in Asks
    /\ at[i] \in {"flush", "commit", "refresh"} => call[i].op = "save"
    /\ txn[i] # "none" => at[i] \notin {"new", "find", "flush"} /\ call[i].op = "save"

\* A row is locked by one transaction at most.
OneOpen ==
  \A i, j \in Calls :
    txn[i] = "open" /\ txn[j] = "open" /\ call[i].user = call[j].user => i = j

\* A row that has been seen stays, and an INSERT that is open has no committed
\* row of its key beside it until it commits.
RowsStay ==
  \A i \in Calls :
    /\ seen[i] # NoRow => at[i] # "new" /\ profiles[call[i].user] # NoRow
    /\ seen[i] = NoRow /\ txn[i] = "open" => profiles[call[i].user] = NoRow
    /\ txn[i] = "committed" => profiles[call[i].user] # NoRow

\* Without a second one, a save that has read and may still write has read what
\* is in the table.
LoneSaveIsCurrent ==
  \A u \in Users \ overlapped : \A i \in Saving(u) :
    seen[i] = profiles[u] /\ \A j \in Saving(u) : i = j

StoreInv == /\ UserStoreTypeOK
        /\ CallsInPlace
        /\ OneOpen
        /\ RowsStay
        /\ LoneSaveIsCurrent
        /\ OneInsertPerUser
        /\ LoneSavesAreWhole

LEMMA InitStoreInv == UserStoreInit => StoreInv
<1> SUFFICES ASSUME UserStoreInit PROVE StoreInv
  OBVIOUS
<1> USE DEF UserStoreInit
<1>1. UserStoreTypeOK
  BY DEF UserStoreTypeOK
<1>2. CallsInPlace /\ OneOpen /\ RowsStay /\ OneInsertPerUser
  BY DEF CallsInPlace, OneOpen, RowsStay, OneInsertPerUser
<1>3. LoneSaveIsCurrent /\ LoneSavesAreWhole
  BY DEF LoneSaveIsCurrent, LoneSavesAreWhole, Saving
<1> QED  BY <1>1, <1>2, <1>3 DEF StoreInv

-----------------------------------------------------------------------------
\* What a call asks.
LEMMA AskOf ==
  ASSUME StoreInv, NEW i \in Calls, at[i] # "new"
  PROVE  /\ call[i] \in Asks /\ call[i] # NoRow
         /\ call[i].user \in Users
         /\ call[i].op = "save" => call[i].row \in Rows
  BY UserStoreAssumption DEF StoreInv, CallsInPlace, Asks

\* A call that ends, or goes from one await to another without a transaction of
\* its own being touched, keeps the invariant: the saves of a user become fewer.
LEMMA MoveKeepsStoreInv ==
  ASSUME StoreInv, NEW i \in Calls, at[i] # "new", NEW place \in Ends \cup {"refresh"},
         place = "refresh" => call[i].op = "save",
         at' = [at EXCEPT ![i] = place],
         given' \in [Calls -> Rows \cup {NoRow}],
         UNCHANGED <<profiles, call, seen, txn, overlapped>>
  PROVE  StoreInv'
<1> USE DEF StoreInv
<1>1. place \notin {"new", "find", "flush", "commit"} /\ place \in {"new"} \cup Awaits \cup Ends
  BY DEF Ends, Awaits
<1>2. UserStoreTypeOK'
  BY <1>1 DEF UserStoreTypeOK
<1>3. /\ at'[i] = place
      /\ \A j \in Calls : j # i => at'[j] = at[j]
  BY DEF UserStoreTypeOK
<1>4. CallsInPlace'
  BY <1>1, <1>3 DEF CallsInPlace
<1>5. OneOpen' /\ OneInsertPerUser' /\ LoneSavesAreWhole'
  BY DEF OneOpen, OneInsertPerUser, LoneSavesAreWhole
<1>6. RowsStay'
  BY <1>1, <1>3 DEF RowsStay
<1>7. \A u \in Users : Saving(u)' \subseteq Saving(u)
  BY <1>1, <1>3 DEF Saving
<1>8. LoneSaveIsCurrent'
  BY <1>7 DEF LoneSaveIsCurrent
<1> QED  BY <1>2, <1>4, <1>5, <1>6, <1>8

\* A call that begins.
LEMMA AskKeepsStoreInv ==
  ASSUME StoreInv, NEW i \in Calls, NEW ask \in Asks, Ask(i, ask)
  PROVE  StoreInv'
<1> USE DEF StoreInv
<1>1. /\ at[i] = "new" /\ txn[i] = "none" /\ seen[i] = NoRow
      /\ call' = [call EXCEPT ![i] = ask]
      /\ UNCHANGED <<profiles, seen, given, txn, overlapped>>
  BY DEF Ask, Begin, RefuseTimestamps, CallsInPlace, RowsStay
<1>2. PICK place \in {"find", "invalid"} : at' = [at EXCEPT ![i] = place]
  BY DEF Ask, Begin, RefuseTimestamps
<1>3. /\ call'[i] = ask /\ at'[i] = place
      /\ \A j \in Calls : j # i => call'[j] = call[j] /\ at'[j] = at[j]
  BY <1>1, <1>2 DEF UserStoreTypeOK
<1>4. UserStoreTypeOK'
  BY <1>1, <1>2 DEF UserStoreTypeOK, Awaits, Ends
<1>5. CallsInPlace'
  BY <1>1, <1>3 DEF CallsInPlace
<1>6. \A j \in Calls : txn'[j] # "none" => j # i
  BY <1>1
<1>7. OneOpen' /\ OneInsertPerUser'
  BY <1>1, <1>3, <1>6 DEF OneOpen, OneInsertPerUser
<1>8. RowsStay'
  BY <1>1, <1>3, <1>6 DEF RowsStay
<1>9. \A u \in Users : Saving(u)' = Saving(u)
  BY <1>1, <1>3 DEF Saving
<1>10. LoneSaveIsCurrent'
  BY <1>1, <1>9 DEF LoneSaveIsCurrent
<1>11. LoneSavesAreWhole'
  <2> SUFFICES ASSUME NEW u \in Users \ overlapped, profiles[u] # NoRow
               PROVE  \E j \in Calls : /\ call'[j] # NoRow /\ call'[j].op = "save"
                                       /\ call'[j].user = u /\ call'[j].row = profiles[u]
    BY <1>1 DEF LoneSavesAreWhole
  <2>1. PICK j \in Calls : /\ call[j] # NoRow /\ call[j].op = "save"
                           /\ call[j].user = u /\ call[j].row = profiles[u]
    BY DEF LoneSavesAreWhole
  <2>2. j # i
    BY <1>1, <2>1 DEF CallsInPlace
  <2> QED  BY <1>3, <2>1, <2>2
<1> QED  BY <1>4, <1>5, <1>7, <1>8, <1>10, <1>11

\* A save that has read the row: another one of the same user makes it overlap.
LEMMA FindKeepsStoreInv ==
  ASSUME StoreInv, NEW i \in Calls, FindForSave(i)
  PROVE  StoreInv'
<1> USE DEF StoreInv
<1>0. PICK u : u = call[i].user
  OBVIOUS
<1>1. /\ at[i] = "find" /\ call[i].op = "save" /\ txn[i] = "none" /\ u \in Users /\ u = call[i].user
      /\ call[i] # NoRow
      /\ seen' = [seen EXCEPT ![i] = profiles[u]]
      /\ at' = [at EXCEPT ![i] = "flush"]
      /\ overlapped' = IF Saving(u) = {} THEN overlapped ELSE overlapped \cup {u}
      /\ UNCHANGED <<profiles, call, given, txn>>
  BY <1>0, AskOf DEF FindForSave, CallsInPlace
<1>2. /\ at'[i] = "flush" /\ seen'[i] = profiles[u]
      /\ \A j \in Calls : j # i => at'[j] = at[j] /\ seen'[j] = seen[j]
  BY <1>1 DEF UserStoreTypeOK
<1>3. UserStoreTypeOK'
  <2>1. profiles[u] \in Rows \cup {NoRow}
    BY <1>1 DEF UserStoreTypeOK
  <2> QED  BY <1>1, <2>1 DEF UserStoreTypeOK, Awaits
<1>4. CallsInPlace'
  BY <1>1, <1>2 DEF CallsInPlace
<1>5. OneOpen' /\ OneInsertPerUser'
  BY <1>1, <1>2 DEF OneOpen, OneInsertPerUser
<1>6. RowsStay'
  BY <1>1, <1>2 DEF RowsStay
<1>7. LoneSavesAreWhole'
  BY <1>1 DEF LoneSavesAreWhole
<1>8. /\ Saving(u)' = Saving(u) \cup {i}
      /\ \A v \in Users : v # u => Saving(v)' = Saving(v) /\ i \notin Saving(v)
      /\ i \notin Saving(u)
  BY <1>1, <1>2 DEF Saving
<1>9. LoneSaveIsCurrent'
  <2> SUFFICES ASSUME NEW v \in Users \ overlapped'
               PROVE  \A j \in Saving(v)' : seen'[j] = profiles[v] /\ \A k \in Saving(v)' : j = k
    BY <1>1 DEF LoneSaveIsCurrent
  <2>1. v \notin overlapped
    BY <1>1
  <2>2. CASE v = u
    <3>1. Saving(u) = {}
      BY <1>1, <2>2
    <3>2. Saving(v)' = {i}
      BY <1>8, <2>2, <3>1
    <3>3. seen'[i] = profiles[v]
      BY <1>2, <2>2
    <3> QED  BY <3>2, <3>3
  <2>3. CASE v # u
    <3>1. Saving(v)' = Saving(v) /\ \A j \in Saving(v) : j # i /\ j \in Calls
      BY <1>8, <2>3 DEF Saving
    <3> QED  BY <1>2, <2>1, <3>1 DEF LoneSaveIsCurrent
  <2> QED  BY <2>2, <2>3
<1> QED  BY <1>3, <1>4, <1>5, <1>6, <1>7, <1>9

\* A write that is sent: the row is not locked, and an INSERT finds no row.
LEMMA SendKeepsStoreInv ==
  ASSUME StoreInv, NEW i \in Calls, at[i] = "flush", Unlocked(i), Send(i),
         seen[i] = NoRow => profiles[call[i].user] = NoRow
  PROVE  StoreInv'
<1> USE DEF StoreInv
<1>1. /\ call[i].op = "save" /\ txn[i] = "none" /\ call[i] # NoRow /\ call[i].user \in Users
      /\ at' = [at EXCEPT ![i] = "commit"]
      /\ txn' = [txn EXCEPT ![i] = "open"]
      /\ UNCHANGED <<profiles, call, seen, given, overlapped>>
  BY AskOf DEF Send, CallsInPlace
<1>2. /\ at'[i] = "commit" /\ txn'[i] = "open"
      /\ \A j \in Calls : j # i => at'[j] = at[j] /\ txn'[j] = txn[j]
  BY <1>1 DEF UserStoreTypeOK
<1>3. UserStoreTypeOK'
  BY <1>1 DEF UserStoreTypeOK, Awaits
<1>4. CallsInPlace'
  BY <1>1, <1>2 DEF CallsInPlace
<1>5. OneOpen'
  BY <1>1, <1>2 DEF OneOpen, Unlocked
<1>6. RowsStay'
  BY <1>1, <1>2 DEF RowsStay
<1>7. OneInsertPerUser'
  BY <1>1, <1>2 DEF OneInsertPerUser
<1>8. LoneSavesAreWhole'
  BY <1>1 DEF LoneSavesAreWhole
<1>9. \A u \in Users : Saving(u)' = Saving(u)
  BY <1>1, <1>2 DEF Saving
<1>10. LoneSaveIsCurrent'
  BY <1>1, <1>9 DEF LoneSaveIsCurrent
<1> QED  BY <1>3, <1>4, <1>5, <1>6, <1>7, <1>8, <1>10

-----------------------------------------------------------------------------
\* The row a transaction leaves is a row, and the one its save was called with
\* when the row is what the save read.
LEMMA WrittenRow ==
  ASSUME StoreInv, NEW i \in Calls, txn[i] = "open"
  PROVE  /\ Written(i) \in Rows
         /\ seen[i] = profiles[call[i].user] => Written(i) = call[i].row
<1> DEFINE u == call[i].user
<1>1. call[i].row \in Rows /\ u \in Users
  BY AskOf DEF StoreInv, CallsInPlace
<1>2. CASE seen[i] = NoRow
  BY <1>1, <1>2 DEF Written
<1>3. CASE seen[i] # NoRow
  <2> DEFINE V == UNION {{p[c] : c \in Columns} : p \in Profiles}
  <2>1. profiles[u] \in [Columns -> V] /\ call[i].row \in [Columns -> V]
    BY <1>1, <1>3 DEF StoreInv, RowsStay, UserStoreTypeOK, Rows
  <2>2. Written(i) = [c \in Columns |-> IF c \in Dirty(i) THEN call[i].row[c] ELSE profiles[u][c]]
    BY <1>3 DEF Written
  <2>3. Written(i) \in [Columns -> V]
    <3> HIDE DEF V
    <3> QED  BY <2>1, <2>2
  <2>4. ASSUME seen[i] = profiles[u] PROVE Written(i) = call[i].row
    <3>1. \A c \in Columns : Written(i)[c] = call[i].row[c]
      BY <2>2, <2>4 DEF Dirty
    <3> HIDE DEF V
    <3> QED  BY <2>1, <2>3, <3>1
  <2> QED  BY <2>3, <2>4 DEF Rows
<1> QED  BY <1>2, <1>3

LEMMA CommitKeepsStoreInv ==
  ASSUME StoreInv, NEW i \in Calls, ServerCommits(i)
  PROVE  StoreInv'
<1> USE DEF StoreInv
<1>0. PICK u : u = call[i].user
  OBVIOUS
<1>1. /\ txn[i] = "open" /\ at[i] \notin {"new", "find", "flush"} /\ call[i].op = "save"
      /\ u \in Users /\ u = call[i].user /\ call[i] # NoRow
      /\ profiles' = [profiles EXCEPT ![u] = Written(i)]
      /\ txn' = [txn EXCEPT ![i] = "committed"]
      /\ UNCHANGED <<call, at, seen, given, overlapped>>
  BY <1>0, AskOf DEF ServerCommits, CallsInPlace, locals
<1>2. Written(i) \in Rows /\ Written(i) # NoRow
  BY <1>1, WrittenRow, UserStoreAssumption
<1>3. /\ txn'[i] = "committed" /\ profiles'[u] = Written(i)
      /\ \A j \in Calls : j # i => txn'[j] = txn[j]
      /\ \A v \in Users : v # u => profiles'[v] = profiles[v]
  BY <1>1 DEF UserStoreTypeOK
<1>4. UserStoreTypeOK'
  BY <1>1, <1>2 DEF UserStoreTypeOK
<1>5. CallsInPlace'
  BY <1>1, <1>3 DEF CallsInPlace
<1>6. OneOpen'
  BY <1>1, <1>3 DEF OneOpen
<1>7. RowsStay'
  <2> SUFFICES ASSUME NEW j \in Calls
               PROVE  /\ seen[j] # NoRow => at[j] # "new" /\ profiles'[call[j].user] # NoRow
                      /\ seen[j] = NoRow /\ txn'[j] = "open" => profiles'[call[j].user] = NoRow
                      /\ txn'[j] = "committed" => profiles'[call[j].user] # NoRow
    BY <1>1 DEF RowsStay
  <2>1. at[j] # "new" => call[j].user \in Users
    BY AskOf
  <2>2. txn[j] # "none" => at[j] # "new"
    BY DEF CallsInPlace
  <2>3. txn'[j] = "open" => call[j].user # u
    BY <1>1, <1>3 DEF OneOpen
  <2> QED  BY <1>1, <1>2, <1>3, <2>1, <2>2, <2>3 DEF RowsStay
<1>8. OneInsertPerUser'
  <2>1. seen[i] = NoRow => \A j \in Calls : txn[j] = "committed" => call[j].user # u
    BY <1>1 DEF RowsStay
  <2> QED  BY <1>1, <1>3, <2>1 DEF OneInsertPerUser
<1>9. /\ \A v \in Users : Saving(v)' \subseteq Saving(v)
      /\ i \in Saving(u) /\ i \notin Saving(u)'
  BY <1>1, <1>3 DEF Saving
<1>10. LoneSaveIsCurrent'
  <2> SUFFICES ASSUME NEW v \in Users \ overlapped
               PROVE  \A j \in Saving(v)' : seen[j] = profiles'[v] /\ \A k \in Saving(v)' : j = k
    BY <1>1 DEF LoneSaveIsCurrent
  <2>1. CASE v = u
    <3>1. \A j \in Saving(u) : i = j
      BY <1>9, <2>1 DEF LoneSaveIsCurrent
    <3>2. ASSUME NEW j \in Saving(u)'
          PROVE  FALSE
      <4>1. j \in Saving(u)
        BY <1>1, <1>9, <3>2
      <4>2. j = i
        BY <3>1, <4>1
      <4> QED  BY <1>9, <3>2, <4>2
    <3> QED  BY <2>1, <3>2
  <2>2. CASE v # u
    BY <1>3, <1>9, <2>2 DEF LoneSaveIsCurrent
  <2> QED  BY <2>1, <2>2
<1>11. LoneSavesAreWhole'
  <2> SUFFICES ASSUME NEW v \in Users \ overlapped, profiles'[v] # NoRow
               PROVE  \E j \in Calls : /\ call[j] # NoRow /\ call[j].op = "save"
                                       /\ call[j].user = v /\ call[j].row = profiles'[v]
    BY <1>1 DEF LoneSavesAreWhole
  <2>1. CASE v = u
    <3>1. seen[i] = profiles[u]
      BY <1>9, <2>1 DEF LoneSaveIsCurrent
    <3>2. Written(i) = call[i].row
      BY <1>1, <3>1, WrittenRow
    <3> QED  BY <1>1, <1>3, <2>1, <3>2
  <2>2. CASE v # u
    BY <1>3, <2>2 DEF LoneSavesAreWhole
  <2> QED  BY <2>1, <2>2
<1> QED  BY <1>4, <1>5, <1>6, <1>7, <1>8, <1>10, <1>11

LEMMA AbortKeepsStoreInv ==
  ASSUME StoreInv, NEW i \in Calls, ServerAborts(i)
  PROVE  StoreInv'
<1> USE DEF StoreInv
<1>1. /\ txn[i] = "open"
      /\ txn' = [txn EXCEPT ![i] = "aborted"]
      /\ UNCHANGED <<profiles, call, at, seen, given, overlapped>>
  BY DEF ServerAborts, locals
<1>2. /\ txn'[i] = "aborted"
      /\ \A j \in Calls : j # i => txn'[j] = txn[j]
  BY <1>1 DEF UserStoreTypeOK
<1>3. UserStoreTypeOK'
  BY <1>1 DEF UserStoreTypeOK
<1>4. CallsInPlace' /\ OneOpen' /\ RowsStay' /\ OneInsertPerUser'
  BY <1>1, <1>2 DEF CallsInPlace, OneOpen, RowsStay, OneInsertPerUser
<1>5. \A u \in Users : Saving(u)' \subseteq Saving(u)
  BY <1>1, <1>2 DEF Saving
<1>6. LoneSaveIsCurrent'
  BY <1>1, <1>5 DEF LoneSaveIsCurrent
<1>7. LoneSavesAreWhole'
  BY <1>1 DEF LoneSavesAreWhole
<1> QED  BY <1>3, <1>4, <1>6, <1>7

-----------------------------------------------------------------------------
\* A step of a call: its awaits end one after the other.
LEMMA StepKeepsStoreInv ==
  ASSUME StoreInv, NEW i \in Calls, Step(i) \/ Break(i)
  PROVE  StoreInv'
<1>1. ASSUME NEW outcome \in Ends, NEW row \in Rows \cup {NoRow},
             at[i] # "new", End(i, outcome, row)
      PROVE  StoreInv'
  <2>1. given' \in [Calls -> Rows \cup {NoRow}]
    BY <1>1 DEF End, StoreInv, UserStoreTypeOK
  <2>2. outcome # "refresh"
    BY DEF Ends
  <2> QED  BY <1>1, <2>1, <2>2, MoveKeepsStoreInv DEF End
<1>2. at[i] # "new" => profiles[call[i].user] \in Rows \cup {NoRow}
  BY AskOf DEF StoreInv, UserStoreTypeOK
<1>3. CASE GetStreak(i)
  BY <1>1, <1>2, <1>3 DEF GetStreak, Ends
<1>4. CASE VerifyStreak(i)
  BY <1>1, <1>4 DEF VerifyStreak, Ends
<1>5. CASE FindForSave(i)
  BY <1>5, FindKeepsStoreInv
<1>6. CASE FlushUpdate(i)
  BY <1>6, SendKeepsStoreInv DEF FlushUpdate
<1>7. CASE FlushNothing(i) \/ CommitAnswered(i)
  <2>1. /\ at[i] \in {"flush", "commit"} /\ at' = [at EXCEPT ![i] = "refresh"]
        /\ UNCHANGED <<profiles, call, seen, given, txn, overlapped>>
    BY <1>7 DEF FlushNothing, CommitAnswered
  <2>2. call[i].op = "save" /\ at[i] # "new"
    BY <2>1 DEF StoreInv, CallsInPlace
  <2>3. given' \in [Calls -> Rows \cup {NoRow}]
    BY <2>1 DEF StoreInv, UserStoreTypeOK
  <2> QED  BY <2>1, <2>2, <2>3, MoveKeepsStoreInv
<1>8. CASE FlushInsert(i)
  <2>1. CASE profiles[call[i].user] = NoRow
    BY <1>8, <2>1, SendKeepsStoreInv DEF FlushInsert
  <2>2. CASE profiles[call[i].user] # NoRow
    BY <1>1, <1>8, <2>2 DEF FlushInsert, Ends
  <2> QED  BY <2>1, <2>2
<1>9. CASE Refresh(i)
  BY <1>1, <1>2, <1>9 DEF Refresh, Ends
<1>10. CASE Break(i)
  BY <1>1, <1>10 DEF Break, Awaits, Ends
<1> QED  BY <1>3, <1>4, <1>5, <1>6, <1>7, <1>8, <1>9, <1>10 DEF Step

LEMMA NextKeepsStoreInv == StoreInv /\ [UserStoreNext]_userVars => StoreInv'
<1> SUFFICES ASSUME StoreInv, [UserStoreNext]_userVars PROVE StoreInv'
  OBVIOUS
<1>1. ASSUME NEW i \in Calls, NEW ask \in Asks, Ask(i, ask) PROVE StoreInv'
  BY <1>1, AskKeepsStoreInv
<1>2. ASSUME NEW i \in Calls, Step(i) \/ Break(i) PROVE StoreInv'
  BY <1>2, StepKeepsStoreInv
<1>3. ASSUME NEW i \in Calls, Settle(i) PROVE StoreInv'
  BY <1>3, CommitKeepsStoreInv, AbortKeepsStoreInv DEF Settle
<1>4. CASE UNCHANGED userVars
  BY <1>4 DEF StoreInv, UserStoreTypeOK, CallsInPlace, OneOpen, RowsStay, LoneSaveIsCurrent, Saving,
              OneInsertPerUser, LoneSavesAreWhole, userVars, locals
<1> QED  BY <1>1, <1>2, <1>3, <1>4 DEF UserStoreNext

LEMMA StoreInvariance == UserStoreSpec => []StoreInv
  BY InitStoreInv, NextKeepsStoreInv, PTL DEF UserStoreSpec

\* The type invariant of the user store.
THEOREM UserStoreTypeCorrect == UserStoreSpec => []UserStoreTypeOK
<1>1. StoreInv => UserStoreTypeOK
  BY DEF StoreInv
<1> QED  BY <1>1, StoreInvariance, PTL

\* Of the first saves of a user one inserts (user_repository.py:47).
THEOREM InsertedOnce == UserStoreSpec => []OneInsertPerUser
<1>1. StoreInv => OneInsertPerUser
  BY DEF StoreInv
<1> QED  BY <1>1, StoreInvariance, PTL

\* Saves that do not meet leave whole rows (user_repository.py:37), although each
\* writes only the columns that differ from what it read.
THEOREM LoneSavesWhole == UserStoreSpec => []LoneSavesAreWhole
<1>1. StoreInv => LoneSavesAreWhole
  BY DEF StoreInv
<1> QED  BY <1>1, StoreInvariance, PTL
=============================================================================
