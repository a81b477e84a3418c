SPECIFICATION FairSpec
CONSTANTS
  Writes = {w1, w2}
  Uploads = {u1, u2}
  MaxCallers = 2
  SyncNows = 1
  MaxThrows = 1
  MaxBoots = 2
INVARIANTS UploadsKeepUp FinalFlush
PROPERTIES ImplementsDurableCopy EventuallyDurable
CHECK_DEADLOCK FALSE
