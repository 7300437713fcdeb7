SPECIFICATION TabFairSpec
CONSTANTS
  Form = {"f", "g"}
  FollowTicks = 1
  MaxSessions = 2
  MaxVersion = 2
  MaxClicks = 2

INVARIANTS EntryExactlyOnce
PROPERTIES ViewNeverGoesBack OldLoadsEndNoSession ViewSettles
CHECK_DEADLOCK FALSE
