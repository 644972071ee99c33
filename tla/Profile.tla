------------------------------- MODULE Profile -------------------------------
(***************************************************************************)
(* A UserProfile in memory, as update_streak and the badge functions change *)
(* it: called in any order, with any times.  The times are the caller's:    *)
(* they come from request bodies and need not increase.                     *)
(*                                                                          *)
(* Time is counted in units of which Day make 24 hours.  Badges are not     *)
(* stored anywhere: they live as long as the object.                        *)
(***************************************************************************)
EXTENDS Integers, Sequences, FiniteSetsExt

CONSTANTS Day,
          Times,             \* the times of completions
          Streaks,           \* the counts a profile may be built with
          BadgeDefinitions,  \* badges.json: the badge of each milestone
          Hidden,            \* <<badge, required streak>> of each hidden badge
          NoTime             \* a time that is not set

ASSUME ProfileAssumption ==
  /\ Day \in Nat \ {0}
  /\ Times \subseteq Int /\ NoTime \notin Int
  /\ Streaks \subseteq Nat
  /\ DOMAIN BadgeDefinitions \subseteq Nat /\ IsFiniteSet(DOMAIN BadgeDefinitions)
  /\ \A h \in Hidden : h[2] \in Nat

VARIABLES user,   \* the profile
          start,  \* history: streak and time at which the current run of completions began
          peak    \* history: the longest streak so far

profileVars == <<user, start, peak>>

Milestones == DOMAIN BadgeDefinitions
Badges == {BadgeDefinitions[n] : n \in Milestones} \cup {h[1] : h \in Hidden}
UserProfile == [current_streak : Nat,
                last_completion_time : Times \cup {NoTime},
                verified_activity_time : Times \cup {NoTime},
                badges : Seq(Badges)]

ProfileTypeOK ==
  /\ user \in UserProfile
  /\ start \in [streak : Nat, at : Times \cup {NoTime}]
  /\ peak \in Nat

\* default_factory=list: every profile is built without badges.
ProfileInit ==
  /\ user \in [current_streak : Streaks,
               last_completion_time : Times \cup {NoTime},
               verified_activity_time : Times \cup {NoTime},
               badges : {<<>>}]
  /\ start = [streak |-> user.current_streak, at |-> user.last_completion_time]
  /\ peak = user.current_streak

-----------------------------------------------------------------------------
(* update_streak                                                            *)

\* A completion counts unless activity is unverified, or less than 24 hours
\* have passed; less than none, too.
Counts(u, now) == /\ u.verified_activity_time # NoTime
                  /\ \/ u.last_completion_time = NoTime
                     \/ now - u.last_completion_time >= Day

Continues(u, now) == /\ u.last_completion_time # NoTime
                     /\ now - u.last_completion_time <= 2 * Day

\* Mutant: the streak is never reset.
update_streak_unbounded(u, now) ==
  IF Counts(u, now)
  THEN [u EXCEPT !.current_streak = @ + 1, !.last_completion_time = now]
  ELSE u

update_streak(u, now) ==
  IF Counts(u, now)
  THEN [u EXCEPT !.current_streak = IF Continues(u, now) THEN @ + 1 ELSE 1,
                 !.last_completion_time = now]
  ELSE u

Complete(now) ==
  /\ user' = update_streak(user, now)
  /\ start' = IF user' # user /\ user'.current_streak = 1
              THEN [streak |-> 1, at |-> now] ELSE start
  /\ peak' = IF user'.current_streak > peak THEN user'.current_streak ELSE peak

-----------------------------------------------------------------------------
(* badges.py                                                                *)

\* if badge_id not in user.badges: user.badges.append(badge_id)
WithBadge(u, badge) ==
  IF \E k \in DOMAIN u.badges : u.badges[k] = badge THEN u
  ELSE [u EXCEPT !.badges = Append(@, badge)]

Reached(u) == {n \in Milestones : u.current_streak >= n}

\* Mutant: the badge of the next milestone.
award_next_milestone_badge(u) ==
  LET ahead == Milestones \ Reached(u)
  IN IF ahead = {} THEN u ELSE WithBadge(u, BadgeDefinitions[Min(ahead)])

\* Only the badge of the highest milestone reached: a milestone that is passed
\* between two calls is never awarded.
award_milestone_badge(u) ==
  IF Reached(u) = {} THEN u ELSE WithBadge(u, BadgeDefinitions[Max(Reached(u))])

reveal_hidden_badge(u, badge, required) ==
  IF u.current_streak >= required THEN WithBadge(u, badge) ELSE u

Award == /\ user' = award_milestone_badge(user)
         /\ UNCHANGED <<start, peak>>

Reveal(h) == /\ user' = reveal_hidden_badge(user, h[1], h[2])
             /\ UNCHANGED <<start, peak>>

-----------------------------------------------------------------------------
ProfileNext == \/ \E now \in Times : Complete(now)
               \/ Award
               \/ \E h \in Hidden : Reveal(h)

ProfileSpec == ProfileInit /\ [][ProfileNext]_profileVars

-----------------------------------------------------------------------------
(* Properties.                                                              *)

\* A streak of n more takes n days at least and twice that at most, whatever
\* times completions are reported with and in whatever order: the debouncing
\* and the reset of README.md:38 over a whole run of completions.
StreakPaced ==
  user.last_completion_time # NoTime =>
    LET gained == user.current_streak - start.streak
        elapsed == user.last_completion_time - start.at
    IN start.at # NoTime /\ elapsed >= gained * Day /\ elapsed <= 2 * gained * Day

\* A profile has every badge once, and has had the streak each of them asks
\* for, also after the streak is reset.
BadgesEarned ==
  /\ \A j, k \in DOMAIN user.badges : user.badges[j] = user.badges[k] => j = k
  /\ \A k \in DOMAIN user.badges :
       \/ \E n \in Milestones : user.badges[k] = BadgeDefinitions[n] /\ peak >= n
       \/ \E h \in Hidden : user.badges[k] = h[1] /\ peak >= h[2]
=============================================================================
