SPECIFICATION TransfersSpec
CONSTANTS
  Migrations = {m1}
  Nobody = Nobody
  Starts = {s1, s2}
  Jobs = {s1, s2}
  Closers = {c1}
  Deleters = {d1}
  MaxRestarts = 1
INVARIANTS ReadyIsWhole NothingLeftBehind MigrationIsSound
SYMMETRY Interchangeable
CHECK_DEADLOCK FALSE
