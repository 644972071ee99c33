SPECIFICATION Spec
CONSTANTS
  Requests = {q1, q2}
  Badges = {streak, novice}
  Tenants = {acme}
  Evidence = {proof1, proof2}
  Malformed = Malformed
  None = None
  Faults = TRUE
INVARIANT AwardedEvidencePersisted
CHECK_DEADLOCK FALSE
