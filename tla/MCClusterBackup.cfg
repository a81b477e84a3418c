SPECIFICATION PackedSpec
CONSTANTS
  Bundles = {b1}
  Restores = {r1}
  Jobs = {b1, r1}
  Databases = 2
  MaxBoots = 2
INVARIANTS BundlesFollowRows RecordAgreesWithJob SplitsLikePostgres FormatsComeBack
PROPERTIES ImplementsJobManager PipelinesEnd
CHECK_DEADLOCK FALSE
