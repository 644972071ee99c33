------------------------- MODULE LeaderboardRequests -------------------------
(***************************************************************************)
(* The requests of the leaderboard API and of LeaderboardService, and the   *)
(* validation the handler and the service do before the first Redis         *)
(* command.  A name, tenant or segment is what remains of the text after    *)
(* the stripping and case folding of the validators; every text they        *)
(* refuse is BadName or Unknown, an omitted field is None, and a score that *)
(* is NaN or negative is any number below 0.                                *)
(***************************************************************************)
EXTENDS ZSet, Sequences

CONSTANTS Tenants, Industries, Regions, Sizes,  \* the valid values
          BadName,   \* a username USERNAME_REGEX refuses
          Unknown,   \* a tenant or segment outside the data contract
          None,      \* a field the request leaves out
          TopLimit,        \* the most players the global listing may ask for
          DimensionLimit,  \* the most a listing of a dimension may ask for
          Traffic    \* the requests clients send

Players == Members
Names == Players \cup {BadName}
Segments == Industries \cup Regions \cup Sizes
Dimensions == {"global", "industry", "region", "size"}
Views == {"absolute", "improvement"}

Ops == {"score", "bulk", "incr", "top", "dimension", "rank",
        "delete", "deletes", "reset", "opt-in", "opt-out"}

\* The shape of a request: what pydantic has parsed, not yet validated.
IsRequest(r) ==
  /\ r.op \in Ops
  /\ r.op \in {"score", "incr", "rank", "delete"} => r.user \in Names
  /\ r.op = "score" =>
       /\ r.score \in Int
       /\ r.tenant \in Tenants \cup {Unknown, None}
       /\ r.industry \in Industries \cup {Unknown, None}
       /\ r.region \in Regions \cup {Unknown, None}
       /\ r.size \in Sizes \cup {Unknown, None}
  /\ r.op = "bulk" => r.scores \in Seq(Names \X Int)
  /\ r.op = "incr" => r.by \in Int /\ r.by <= Inf
  /\ r.op \in {"top", "dimension"} => r.limit \in Nat
  /\ r.op = "dimension" =>
       /\ r.dimension \in Dimensions \cup {Unknown}
       /\ r.view \in Views \cup {Unknown}
       /\ r.value \in Segments \cup {None}
  /\ r.op = "deletes" => r.users \subseteq Names
  /\ r.op \in {"opt-in", "opt-out"} => r.tenant \in Tenants \cup {Unknown}

ASSUME RequestAssumption ==
  /\ BadName \notin Players
  /\ Industries \cap Regions = {} /\ Industries \cap Sizes = {} /\ Regions \cap Sizes = {}
  /\ {Unknown, None} \cap (Tenants \cup Segments) = {}
  /\ None # Unknown
  /\ TopLimit \in Nat /\ DimensionLimit \in Nat /\ DimensionLimit <= TopLimit
  /\ \A r \in Traffic : IsRequest(r)

-----------------------------------------------------------------------------
\* Mutant: infinity is not refused.
ValidScoreOrInf(s) == s \in Score

ValidScore(s) == s \in Finite

\* set_tenant_score's metadata; an omitted segment is refused one level up.
ValidTenant(r) ==
  /\ r.tenant \in Tenants
  /\ r.industry \in Industries
  /\ r.region \in Regions
  /\ r.size \in Sizes

\* get_top_players also clamps its limit to 1..TopLimit, which changes no limit
\* that the handlers let through.
ValidLimit(r) ==
  r.limit \in 1..(IF r.op = "top" THEN TopLimit ELSE DimensionLimit)

Valid(r) ==
  /\ r.op \in {"score", "incr", "rank", "delete"} => r.user \in Players
  /\ r.op = "score" => ValidScore(r.score) /\ (r.tenant = None \/ ValidTenant(r))
  /\ r.op = "bulk" => \A k \in DOMAIN r.scores :
                         r.scores[k][1] \in Players /\ ValidScore(r.scores[k][2])
  /\ r.op = "incr" => r.by > 0
  /\ r.op \in {"top", "dimension"} => ValidLimit(r)
  /\ r.op = "dimension" => r.dimension \in Dimensions /\ r.view \in Views
  /\ r.op = "deletes" => r.users \subseteq Players

\* set_scores_bulk's validated dict: of two spellings of a name the last wins.
Validated(scores) ==
  LET names == {scores[k][1] : k \in DOMAIN scores}
      last(u) == CHOOSE k \in DOMAIN scores :
                   /\ scores[k][1] = u
                   /\ \A j \in DOMAIN scores : scores[j][1] = u => j <= k
  IN [u \in names |-> scores[last(u)][2]]

\* A batch that is empty is answered before any command.
IsEmptyBatch(r) == \/ r.op = "bulk" /\ r.scores = <<>>
                   \/ r.op = "deletes" /\ r.users = {}
=============================================================================
