SPECIFICATION FairSpec
CONSTANTS
  m1 = m1
  Jobs = {m1}
  MaxRestarts = 1
PROPERTY HungToolsEnd
CHECK_DEADLOCK FALSE
