SPECIFICATION FairSpec
CONSTANTS
  Consumer = {c1, c2}
  Tx = {"t1"}
  Bucket = {"m1"}
  LogLength = 2
  Kind <- WithUnusable
  TxOf <- OneTx
  Large = {"t1"}
  BucketOf <- OneBucket
  MaxGeneration = 2
INVARIANTS NoAlertLost SentWasStored
PROPERTIES OffsetNeverRewinds LogIsConsumed
CHECK_DEADLOCK FALSE
