SPECIFICATION ServedSpec
CONSTANTS
  Backups = {b1}
  Restores = {r1}
  Jobs = {b1, r1}
  MaxBoots = 2
  Users = {root, ann}
  Root = root
  Callers = {q1, q2}
  Turning = {q2}
  MaxEvents = 2
  MaxChanges = 1
INVARIANTS FilesFollowRows JobsFollowTools RequestsAreSound
PROPERTIES ImplementsJobManager HungToolsEnd
CHECK_DEADLOCK FALSE
