SPECIFICATION Spec
CONSTANTS
  q1 = q1
  q2 = q2
  Request = {q1, q2}
  Spelling = {"ada", "Ada"}
  LowerOf <- OneAddress
  Service = {"transactions"}
  AccessTTL = 2
  RefreshTTL = 5
  CacheSeconds = 2
  ProbeSeconds = 1
  ProbeWaits = 2
  HandlerSeconds = 1
  MaxUsers = 2
  MaxTime = 5

INVARIANTS UsersCanIngest AccessEnds StatusFresh
SYMMETRY Alike
CHECK_DEADLOCK FALSE
