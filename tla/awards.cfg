SPECIFICATION FairSpec
CONSTANTS
  Requests = {q1, q2, q3}
  Badges = {streak, novice}
  Tenants = {acme}
  Evidence = {proof1}
  Malformed = Malformed
  None = None
  Faults = TRUE
INVARIANTS
  TypeOK
  OneAwardPerKey
  AnswerIsCommitted
  AnswersAgree
PROPERTIES
  ImplementsRegister
  EveryRequestAnswered
CHECK_DEADLOCK FALSE
