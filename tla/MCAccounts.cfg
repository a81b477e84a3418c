SPECIFICATION Spec
CONSTANTS
  Ids = {u1, u2}
  Emails = {a, b}
  Sessions = {s1, s2}
  Invites = {i1, i2}
  Nobody = Nobody
  MaxPasswords = 1
  MaxResets = 1
  MaxBoots = 2
INVARIANTS AdministratorRemains InvitationsSound SessionsFollowPasswords ResetRevokes
CHECK_DEADLOCK FALSE
SYMMETRY Interchangeable
