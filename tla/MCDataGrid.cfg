SPECIFICATION Spec
CONSTANTS
  Rows = {1, 2}
  Narrow = {2}
  PageSize = 2
  Pages = {0}
  Arrangements = {"none", "filtered"}
  Careful = TRUE
  Calls = {c1, c2}
  MaxOthers = 1
INVARIANTS DoesWhatWasPicked ShowsTheTable
CHECK_DEADLOCK FALSE
SYMMETRY Interchangeable
