SPECIFICATION FairSpec
CONSTANTS
  r1 = r1
  r2 = r2
  a1 = a1
  Event = {1, 2}
  Account = {a1}
  Batch = {"b1", "b2"}
  Replica = {r1, r2}
  AccountOf <- OneAccount
  BatchOf <- OneEach
  ClockAhead <- TwoClocks
  LeaseSeconds = 3
  MaxAttempts = 2
INVARIANTS CompletedWasPublished AccountOrder DeliveriesBounded
PROPERTIES EveryEventSettles
CHECK_DEADLOCK FALSE
