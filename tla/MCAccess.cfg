SPECIFICATION Spec
CONSTANTS
  Users = {root, ann}
  Root = root
  Requests = {r1, r2}
  Turning = {r2}
  MaxChanges = 1
  MaxEvents = 1
INVARIANTS ReadOnlyBlocksWrites
CHECK_DEADLOCK FALSE
