SPECIFICATION BucketSpec
CONSTANTS
  Replica = {r1}
  Capacity = 6
  Refill = 2
  Cost = 3
  MaxSkew = 2
  Expiry = 7
  LastSecond = 10

INVARIANTS SharedLimit LocalLimit SkewCostBounded RetryAfterSuffices
CHECK_DEADLOCK TRUE
