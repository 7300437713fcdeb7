SPECIFICATION FairSpec
CONSTANTS
  w1 = w1
  w2 = w2
  w3 = w3
  Tx = {1}
  Worker = {w1, w2, w3}
  ClockAhead <- ThreeClocks
  Session = {s1, s2}
  LeaseSeconds = 10
  MaxAttempts = 3
  MaxPatches = 2
INVARIANTS ApplierOwnsJob EventsMatchRow
PROPERTIES EveryRowSettles CorrectionSticks LiveClaimKept ImplementsLifecycle
CHECK_DEADLOCK FALSE
