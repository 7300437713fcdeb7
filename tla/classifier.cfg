SPECIFICATION FairSpec
CONSTANTS
  Replica = {r1, r2}
  Merchant = {m1}
  Slugs = {"fuel", "income", "other"}
  Reply = {"fuel", "income", "other", "yachts"}
  Rules <- TwoRules
  Description <- Descriptions
  Threshold = 2
  ResetTimeout = 2
  MaxAttempts = 2
  AttemptTime = 2
  Deadline = 3

INVARIANTS QuietWhileOpen ServedIsCanonical
PROPERTIES EveryCallAnswers
CHECK_DEADLOCK TRUE
