SPECIFICATION RetentionSpec
CONSTANTS
  MaxBackups = 3
  Retentions = {1, 2}
  KeptFailed = 1
  MaxEdits = 1
  MaxDeletes = 1
  MaxBoots = 2
INVARIANTS NewestKept RetentionReached
PROPERTIES OfferedForDelivery
CHECK_DEADLOCK FALSE
