SPECIFICATION Spec
CONSTANTS
  Replica = {r1}
  Merchant = {m1}
  Slugs = {"fuel", "income", "other"}
  Reply = {"fuel", "income", "other", "yachts"}
  Rules <- TwoRules
  Description <- Descriptions
  Threshold = 2
  ResetTimeout = 2
  MaxAttempts = 3
  AttemptTime = 3
  Deadline = 4

INVARIANTS OutageOpensBreaker
CHECK_DEADLOCK TRUE
