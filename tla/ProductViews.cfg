SPECIFICATION ViewsSpec
CONSTANTS
  Qualification = 1
  Thresholds = {1}
  Graces = {1}
  Rates = {0, 1}
  Spans = {1}
  StartDurations = {1}
  AddDurations = {1}
  MaxInstant = 1
  TrayOperations = {"Manual"}
INVARIANTS
  CalmViewsAreTrue
  WarningsHaveCause
CHECK_DEADLOCK FALSE
