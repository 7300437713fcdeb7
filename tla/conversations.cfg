SPECIFICATION Spec
CONSTANTS
  Replica = {r1, r2}
  Chat = {c1, c2, c3}
  MaxTurns = 4
  HistoryTurns = 2
  MaxVersion = 1

INVARIANTS WholeChats InOrder ReplyIsGrounded
CHECK_DEADLOCK TRUE
